---------------------------- MODULE Spec2Model ----------------------------
(* A model of the isengard container updater: the update cycle            *)
(* (internal/updater), the recreation procedures (internal/container)     *)
(* and the registry digest probe (internal/registry).                     *)
(*                                                                        *)
(* Go strings are modelled as sequences of one-character strings, so that *)
(* slicing, prefix tests, splitting and concatenation are computed as the *)
(* code computes them.                                                    *)
EXTENDS Naturals, Integers, Sequences, FiniteSets, TLC

(**************************************************************************)
(* Strings                                                                *)
(**************************************************************************)

\* a local variable of the code: F applied to the value of v, v being
\* computed once
With(v, F(_)) == CHOOSE out \in {F(x) : x \in {v}} : TRUE

Rep(c, n) == [i \in 1..n |-> c]

SetMax(S) == CHOOSE x \in S : \A y \in S : y <= x

SetMin(S) == CHOOSE x \in S : \A y \in S : x <= y

\* strings.HasPrefix
HasPrefix(s, p) == Len(s) >= Len(p) /\ SubSeq(s, 1, Len(p)) = p

\* strings.TrimPrefix
TrimPrefix(s, p) == IF HasPrefix(s, p) THEN SubSeq(s, Len(p) + 1, Len(s)) ELSE s

\* strings.Contains for a one-character substring
Contains(s, c) == \E i \in 1..Len(s) : s[i] = c

\* strings.Index for a one-character substring: 0-based, -1 when absent
Index(s, c) ==
    LET I == {i \in 1..Len(s) : s[i] = c}
    IN  IF I = {} THEN -1 ELSE SetMin(I) - 1

\* strings.LastIndex for a one-character substring: 0-based, -1 when absent
LastIndex(s, c) ==
    LET I == {i \in 1..Len(s) : s[i] = c}
    IN  IF I = {} THEN -1 ELSE SetMax(I) - 1

\* s[:n] for 0 <= n <= len(s)
Prefix(s, n) == SubSeq(s, 1, n)

\* s[n:] for 0 <= n <= len(s)
Suffix(s, n) == SubSeq(s, n + 1, Len(s))

\* strings.SplitN(s, sep, n) for a one-character separator and n >= 1:
\* at most n parts, the last one holding the unsplit remainder
RECURSIVE SplitN(_, _, _)
SplitN(s, sep, n) ==
    LET i == Index(s, sep)
    IN  IF n <= 1 \/ i < 0
        THEN <<s>>
        ELSE <<Prefix(s, i)>> \o SplitN(Suffix(s, i + 1), sep, n - 1)

\* ASCII lower-casing of the letters that occur in label values
ToLowerChar(c) ==
    CASE c = "T" -> "t" [] c = "R" -> "r" [] c = "U" -> "u" [] c = "E" -> "e"
      [] c = "F" -> "f" [] c = "A" -> "a" [] c = "L" -> "l" [] c = "S" -> "s"
      [] OTHER -> c

\* strings.EqualFold, on the alphabet of ToLowerChar
EqualFold(s, t) ==
    /\ Len(s) = Len(t)
    /\ \A i \in 1..Len(s) : ToLowerChar(s[i]) = ToLowerChar(t[i])

Str_latest == <<"l", "a", "t", "e", "s", "t">>

Str_localhost == <<"l", "o", "c", "a", "l", "h", "o", "s", "t">>

Str_dockerio == <<"d", "o", "c", "k", "e", "r", ".", "i", "o">>

Str_indexdockerio == <<"i", "n", "d", "e", "x", ".", "d", "o", "c", "k", "e", "r", ".", "i", "o">>

Str_registry1 == <<"r", "e", "g", "i", "s", "t", "r", "y", "-", "1", ".", "d", "o", "c", "k", "e", "r", ".", "i", "o">>

Str_library == <<"l", "i", "b", "r", "a", "r", "y", "/">>

Str_sha256 == <<"s", "h", "a", "2", "5", "6", ":">>

Str_old == <<"-", "o", "l", "d">>

Str_true == <<"t", "r", "u", "e">>

Str_false == <<"f", "a", "l", "s", "e">>

(**************************************************************************)
(* internal/registry: image references                                    *)
(**************************************************************************)

\* a parse that takes the last colon for the tag separator wherever it stands
ParseImageRef_lastColon(imageRef) ==
    LET at   == LastIndex(imageRef, "@")
        ref0 == IF at >= 0 THEN Prefix(imageRef, at) ELSE imageRef
        lastSlash == LastIndex(ref0, "/")
        lastColon == LastIndex(ref0, ":")
        hasTag == lastColon >= 0
        tag  == IF hasTag THEN Suffix(ref0, lastColon + 1) ELSE Str_latest
        ref  == IF hasTag THEN Prefix(ref0, lastColon) ELSE ref0
        parts == SplitN(ref, "/", 2)
        first == parts[1]
        hostLike == /\ Contains(ref, "/")
                    /\ \/ Contains(first, ".")
                       \/ Contains(first, ":")
                       \/ first = Str_localhost
        registry0 == IF hostLike THEN first ELSE Str_registry1
        registry == IF hostLike /\ (registry0 = Str_dockerio \/ registry0 = Str_indexdockerio)
                    THEN Str_registry1
                    ELSE registry0
        repository0 == IF hostLike THEN parts[2] ELSE ref
        repository == IF registry = Str_registry1 /\ ~Contains(repository0, "/")
                      THEN Str_library \o repository0
                      ELSE repository0
    IN  [Registry |-> registry, Repository |-> repository, Tag |-> tag]

\* a parse that leaves the repository of a Docker Hub image as written
ParseImageRef_noLibrary(imageRef) ==
    LET at   == LastIndex(imageRef, "@")
        ref0 == IF at >= 0 THEN Prefix(imageRef, at) ELSE imageRef
        lastSlash == LastIndex(ref0, "/")
        lastColon == LastIndex(ref0, ":")
        hasTag == IF lastSlash >= 0 THEN lastColon > lastSlash ELSE lastColon >= 0
        tag  == IF hasTag THEN Suffix(ref0, lastColon + 1) ELSE Str_latest
        ref  == IF hasTag THEN Prefix(ref0, lastColon) ELSE ref0
        parts == SplitN(ref, "/", 2)
        first == parts[1]
        hostLike == /\ Contains(ref, "/")
                    /\ \/ Contains(first, ".")
                       \/ Contains(first, ":")
                       \/ first = Str_localhost
        registry0 == IF hostLike THEN first ELSE Str_registry1
        registry == IF hostLike /\ (registry0 = Str_dockerio \/ registry0 = Str_indexdockerio)
                    THEN Str_registry1
                    ELSE registry0
        repository0 == IF hostLike THEN parts[2] ELSE ref
        repository == repository0
    IN  [Registry |-> registry, Repository |-> repository, Tag |-> tag]

\* ParseImageRef: registry host, repository path and tag of a reference
ParseImageRef(imageRef) ==
    LET at   == LastIndex(imageRef, "@")
        ref0 == IF at >= 0 THEN Prefix(imageRef, at) ELSE imageRef
        lastSlash == LastIndex(ref0, "/")
        lastColon == LastIndex(ref0, ":")
        hasTag == IF lastSlash >= 0 THEN lastColon > lastSlash ELSE lastColon >= 0
        tag  == IF hasTag THEN Suffix(ref0, lastColon + 1) ELSE Str_latest
        ref  == IF hasTag THEN Prefix(ref0, lastColon) ELSE ref0
        parts == SplitN(ref, "/", 2)
        first == parts[1]
        hostLike == /\ Contains(ref, "/")
                    /\ \/ Contains(first, ".")
                       \/ Contains(first, ":")
                       \/ first = Str_localhost
        registry0 == IF hostLike THEN first ELSE Str_registry1
        registry == IF hostLike /\ (registry0 = Str_dockerio \/ registry0 = Str_indexdockerio)
                    THEN Str_registry1
                    ELSE registry0
        repository0 == IF hostLike THEN parts[2] ELSE ref
        repository == IF registry = Str_registry1 /\ ~Contains(repository0, "/")
                      THEN Str_library \o repository0
                      ELSE repository0
    IN  [Registry |-> registry, Repository |-> repository, Tag |-> tag]


\* ImageRef.ManifestURL: the manifest of the reference's tag
ManifestURL(ref) == [host |-> ref.Registry, repository |-> ref.Repository, tag |-> ref.Tag]

(**************************************************************************)
(* internal/registry: the digest probe                                    *)
(**************************************************************************)

IsSpace(c) == c \in {" ", "\n", "\t"}

\* strings.TrimSpace
RECURSIVE TrimLeft(_)
TrimLeft(s) == IF Len(s) > 0 /\ IsSpace(s[1]) THEN TrimLeft(Tail(s)) ELSE s

RECURSIVE TrimRight(_)
TrimRight(s) ==
    IF Len(s) > 0 /\ IsSpace(s[Len(s)]) THEN TrimRight(Prefix(s, Len(s) - 1)) ELSE s

TrimSpace(s) == TrimRight(TrimLeft(s))

Str_Bearer == <<"B", "e", "a", "r", "e", "r", " ">>

Str_bearer == <<"b", "e", "a", "r", "e", "r", " ">>

\* splitChallengeParts: split on the commas that are not inside quotes; st0 is
\* the loop's state (parts, current, inQuotes) before character i
RECURSIVE SplitChallengeLoop(_, _, _)
SplitChallengeLoop(s, i, st0) ==
    CHOOSE out \in
        {IF i > Len(s)
         THEN IF Len(st.current) > 0 THEN Append(st.parts, st.current) ELSE st.parts
         ELSE SplitChallengeLoop(s, i + 1,
                IF s[i] = "\""
                THEN [st EXCEPT !.inQuotes = ~st.inQuotes, !.current = Append(st.current, s[i])]
                ELSE IF s[i] = "," /\ ~st.inQuotes
                THEN [st EXCEPT !.parts = Append(st.parts, st.current), !.current = <<>>]
                ELSE [st EXCEPT !.current = Append(st.current, s[i])]) : st \in {st0}} : TRUE

splitChallengeParts(s) ==
    SplitChallengeLoop(s, 1, [parts |-> <<>>, current |-> <<>>, inQuotes |-> FALSE])

\* one "key=value" part of a challenge as a <<key, value>> pair (<<>> when the
\* part has no "=")
ChallengePair(part0) ==
    With(TrimSpace(part0), LAMBDA part :
      With(Index(part, "="), LAMBDA eq :
        IF eq < 0 THEN <<>>
        ELSE With(TrimSpace(Suffix(part, eq + 1)), LAMBDA val0 :
               <<TrimSpace(Prefix(part, eq)),
                 IF Len(val0) >= 2 /\ val0[1] = "\"" /\ val0[Len(val0)] = "\""
                 THEN SubSeq(val0, 2, Len(val0) - 1)
                 ELSE val0>>)))

\* parseChallenge: the parameters of a Www-Authenticate header, as the sequence
\* of <<key, value>> pairs in the order the code assigns them to its map
parseChallenge(header0) ==
    With(TrimSpace(header0), LAMBDA h1 :
      With(splitChallengeParts(IF HasPrefix(h1, Str_Bearer) \/ HasPrefix(h1, Str_bearer)
                               THEN Suffix(h1, 7)
                               ELSE h1), LAMBDA parts :
        [i \in 1..Len(parts) |-> ChallengePair(parts[i])]))

\* params[key] of the map parseChallenge builds: the last assignment wins, a
\* missing key reads as the empty string
ParamGet(params, key) ==
    LET I == {i \in 1..Len(params) : params[i] # <<>> /\ params[i][1] = key}
    IN  IF I = {} THEN <<>> ELSE params[SetMax(I)][2]

Str_realm == <<"r", "e", "a", "l", "m">>

Str_service == <<"s", "e", "r", "v", "i", "c", "e">>

Str_scope == <<"s", "c", "o", "p", "e">>

Str_repository == <<"r", "e", "p", "o", "s", "i", "t", "o", "r", "y", ":">>

Str_pull == <<":", "p", "u", "l", "l">>

\* an exchange that reads the "token" field alone
exchangeToken_tokenOnly(challenge, ref, tk) ==
    With(parseChallenge(challenge), LAMBDA params :
      With([op |-> "GET",
            realm |-> ParamGet(params, Str_realm),
            service |-> ParamGet(params, Str_service),
            scope |-> IF ParamGet(params, Str_scope) # <<>>
                      THEN ParamGet(params, Str_scope)
                      ELSE Str_repository \o ref.Repository \o Str_pull], LAMBDA req :
        IF req.realm = <<>> THEN [token |-> <<>>, err |-> TRUE, reqs |-> <<>>]
        ELSE IF tk.doErr \/ tk.status # 200 \/ tk.decodeErr \/ tk.token = <<>>
        THEN [token |-> <<>>, err |-> TRUE, reqs |-> <<req>>]
        ELSE [token |-> tk.token, err |-> FALSE, reqs |-> <<req>>]))

\* an exchange that asks the token endpoint again after a rejected request
exchangeToken_asksTwice(challenge, ref, tk) ==
    With(parseChallenge(challenge), LAMBDA params :
      With([op |-> "GET",
            realm |-> ParamGet(params, Str_realm),
            service |-> ParamGet(params, Str_service),
            scope |-> IF ParamGet(params, Str_scope) # <<>>
                      THEN ParamGet(params, Str_scope)
                      ELSE Str_repository \o ref.Repository \o Str_pull], LAMBDA req :
        LET token == IF tk.token = <<>> THEN tk.access_token ELSE tk.token
        IN  IF req.realm = <<>> THEN [token |-> <<>>, err |-> TRUE, reqs |-> <<>>]
            ELSE IF tk.doErr \/ tk.status # 200 \/ tk.decodeErr \/ token = <<>>
            THEN [token |-> <<>>, err |-> TRUE, reqs |-> <<req, req>>]
            ELSE [token |-> token, err |-> FALSE, reqs |-> <<req>>]))

\* an exchange that takes whatever a successful token reply carries
exchangeToken_acceptsEmpty(challenge, ref, tk) ==
    With(parseChallenge(challenge), LAMBDA params :
      With([op |-> "GET",
            realm |-> ParamGet(params, Str_realm),
            service |-> ParamGet(params, Str_service),
            scope |-> IF ParamGet(params, Str_scope) # <<>>
                      THEN ParamGet(params, Str_scope)
                      ELSE Str_repository \o ref.Repository \o Str_pull], LAMBDA req :
        LET token == IF tk.token = <<>> THEN tk.access_token ELSE tk.token
        IN  IF req.realm = <<>> THEN [token |-> <<>>, err |-> TRUE, reqs |-> <<>>]
            ELSE IF tk.doErr \/ tk.status # 200 \/ tk.decodeErr
            THEN [token |-> <<>>, err |-> TRUE, reqs |-> <<req>>]
            ELSE [token |-> token, err |-> FALSE, reqs |-> <<req>>]))

\* exchangeToken: the token for a challenge, given the token endpoint's reply
\* tk = [doErr, status, decodeErr, token, access_token]; req is the token
\* request issued, <<>> when none was
exchangeToken(challenge, ref, tk) ==
    With(parseChallenge(challenge), LAMBDA params :
      With([op |-> "GET",
            realm |-> ParamGet(params, Str_realm),
            service |-> ParamGet(params, Str_service),
            scope |-> IF ParamGet(params, Str_scope) # <<>>
                      THEN ParamGet(params, Str_scope)
                      ELSE Str_repository \o ref.Repository \o Str_pull], LAMBDA req :
        LET token == IF tk.token = <<>> THEN tk.access_token ELSE tk.token
        IN  IF req.realm = <<>> THEN [token |-> <<>>, err |-> TRUE, reqs |-> <<>>]
            ELSE IF tk.doErr \/ tk.status # 200 \/ tk.decodeErr \/ token = <<>>
            THEN [token |-> <<>>, err |-> TRUE, reqs |-> <<req>>]
            ELSE [token |-> token, err |-> FALSE, reqs |-> <<req>>]))

\* a probe that repeats the manifest request after a 200 with a digest
CheckDigest_confirms(imageRef, r) ==
    With(ParseImageRef(imageRef), LAMBDA ref :
    With(exchangeToken(r.first.challenge, ref, r.token), LAMBDA tok :
    LET url  == ManifestURL(ref)
        req1 == [op |-> "HEAD", url |-> url, auth |-> <<>>]
        req2 == [op |-> "HEAD", url |-> url, auth |-> Str_Bearer \o tok.token]
    IN  IF r.first.doErr
        THEN [digest |-> <<>>, err |-> TRUE, reqs |-> <<req1>>]
        ELSE IF r.first.status = 200
        THEN [digest |-> r.first.digest, err |-> r.first.digest = <<>>,
              reqs |-> IF r.first.digest = <<>> THEN <<req1>> ELSE <<req1, req1>>]
        ELSE IF r.first.status = 401
        THEN IF r.first.challenge = <<>>
             THEN [digest |-> <<>>, err |-> TRUE, reqs |-> <<req1>>]
             ELSE IF tok.err
             THEN [digest |-> <<>>, err |-> TRUE, reqs |-> <<req1>> \o tok.reqs]
             ELSE IF r.second.doErr \/ r.second.status # 200
             THEN [digest |-> <<>>, err |-> TRUE, reqs |-> <<req1>> \o tok.reqs \o <<req2>>]
             ELSE [digest |-> r.second.digest, err |-> r.second.digest = <<>>,
                   reqs |-> <<req1>> \o tok.reqs \o <<req2>>]
        ELSE [digest |-> <<>>, err |-> TRUE, reqs |-> <<req1>>]))

\* CheckDigest: the remote manifest digest of an image reference, given the
\* registry's replies r = [first, token, second]; first and second are
\* [doErr, status, digest, challenge], the header values being empty when the
\* header is absent.  reqs lists the HTTP requests issued, in order.
CheckDigest(imageRef, r) ==
    With(ParseImageRef(imageRef), LAMBDA ref :
    With(exchangeToken(r.first.challenge, ref, r.token), LAMBDA tok :
    LET url  == ManifestURL(ref)
        req1 == [op |-> "HEAD", url |-> url, auth |-> <<>>]
        req2 == [op |-> "HEAD", url |-> url, auth |-> Str_Bearer \o tok.token]
    IN  IF r.first.doErr
        THEN [digest |-> <<>>, err |-> TRUE, reqs |-> <<req1>>]
        ELSE IF r.first.status = 200
        THEN [digest |-> r.first.digest, err |-> r.first.digest = <<>>, reqs |-> <<req1>>]
        ELSE IF r.first.status = 401
        THEN IF r.first.challenge = <<>>
             THEN [digest |-> <<>>, err |-> TRUE, reqs |-> <<req1>>]
             ELSE IF tok.err
             THEN [digest |-> <<>>, err |-> TRUE, reqs |-> <<req1>> \o tok.reqs]
             ELSE IF r.second.doErr \/ r.second.status # 200
             THEN [digest |-> <<>>, err |-> TRUE, reqs |-> <<req1>> \o tok.reqs \o <<req2>>]
             ELSE [digest |-> r.second.digest, err |-> r.second.digest = <<>>,
                   reqs |-> <<req1>> \o tok.reqs \o <<req2>>]
        ELSE [digest |-> <<>>, err |-> TRUE, reqs |-> <<req1>>]))

(**************************************************************************)
(* internal/container: the recreation plan                                *)
(**************************************************************************)

\* The destination of a bind as the code reads it: parts[1] of
\* strings.SplitN(b, ":", 3) when there are at least two parts
BindParts(b) == SplitN(b, ":", 3)

\* the set of bind destinations the code collects (bindTargets / covered)
BindTargets(binds) ==
    {BindParts(binds[i])[2] : i \in {j \in 1..Len(binds) : Len(BindParts(binds[j])) >= 2}}

\* a conversion that takes the RW flag over as ReadOnly
convertMounts_sameFlag(mountPoints) ==
    [i \in 1..Len(mountPoints) |->
        [Type     |-> mountPoints[i].Type,
         Source   |-> mountPoints[i].Source,
         Target   |-> mountPoints[i].Destination,
         ReadOnly |-> mountPoints[i].RW]]

\* convertMounts: mount points of an inspect as explicit mounts
convertMounts(mountPoints) ==
    [i \in 1..Len(mountPoints) |->
        [Type     |-> mountPoints[i].Type,
         Source   |-> mountPoints[i].Source,
         Target   |-> mountPoints[i].Destination,
         ReadOnly |-> ~mountPoints[i].RW]]

\* a resolution that drops only the first mount a bind covers
deduplicateMounts_dropsFirst(hostConfig) ==
    LET covered == {i \in 1..Len(hostConfig.Mounts) :
                        hostConfig.Mounts[i].Target \in BindTargets(hostConfig.Binds)}
    IN  IF covered = {} THEN hostConfig
        ELSE [hostConfig EXCEPT !.Mounts =
                SubSeq(hostConfig.Mounts, 1, SetMin(covered) - 1)
                    \o SubSeq(hostConfig.Mounts, SetMin(covered) + 1, Len(hostConfig.Mounts))]

\* deduplicateMounts: hostConfig without the mounts whose target a bind covers
deduplicateMounts(hostConfig) ==
    IF Len(hostConfig.Mounts) = 0 \/ Len(hostConfig.Binds) = 0
    THEN hostConfig
    ELSE LET bindTargets == BindTargets(hostConfig.Binds)
             keep(m) == m.Target \notin bindTargets
         IN  [hostConfig EXCEPT !.Mounts = SelectSeq(hostConfig.Mounts, keep)]

\* deduplicateVolumes: config without the declared volumes that a mount or a
\* bind covers; Volumes is [isNil, paths], a nil map being left alone
deduplicateVolumes(config, hostConfig) ==
    IF config.Volumes.isNil
    THEN config
    ELSE LET covered == {hostConfig.Mounts[i].Target : i \in 1..Len(hostConfig.Mounts)}
                            \cup BindTargets(hostConfig.Binds)
         IN  [config EXCEPT !.Volumes.paths = config.Volumes.paths \ covered]

\* The plan Recreate and RecreateSelf build from an inspect result and the new
\* image: image replaced, mounts synthesized when the host configuration has
\* none, then deduplicateMounts and deduplicateVolumes
BuildPlan(inspect, newImage) ==
    LET config0 == [inspect.Config EXCEPT !.Image = newImage]
        host0   == inspect.HostConfig
        host1   == IF Len(inspect.Mounts) > 0 /\ Len(host0.Mounts) = 0
                   THEN [host0 EXCEPT !.Mounts = convertMounts(inspect.Mounts)]
                   ELSE host0
        host2   == deduplicateMounts(host1)
        config1 == deduplicateVolumes(config0, host2)
    IN  [config |-> config1, hostConfig |-> host2]

\* containerName: inspect.Name without its leading slash
ContainerName(name) == IF name # <<>> /\ name[1] = "/" THEN Tail(name) ELSE name

(**************************************************************************)
(* internal/updater: pure helpers                                          *)
(**************************************************************************)

\* the longest slice the code takes of a digest when it logs it
DigestLogLen == 19

\* the longest slice the code takes of a container or image id when it logs it
ShortIDLen == 12

\* a match of the whole id only
isSelf_exactOnly(selfID, containerID) ==
    IF selfID = <<>> THEN FALSE
    ELSE containerID = selfID

\* Updater.isSelf
isSelf(selfID, containerID) ==
    IF selfID = <<>> THEN FALSE
    ELSE containerID = selfID \/ HasPrefix(containerID, selfID)

\* c.Labels[labelEnable]: labels are a set of <<key, value>> pairs with
\* distinct keys
HasLabel(labels, key) == \E kv \in labels : kv[1] = key

LabelValue(labels, key) == (CHOOSE kv \in labels : kv[1] = key)[2]

\* a filter that compares the label's value with "false" and "true" as written
shouldSkip_caseSensitive(selfID, watchAll, c) ==
    IF isSelf(selfID, c.ID) THEN TRUE
    ELSE IF c.Image = <<>> \/ HasPrefix(c.Image, Str_sha256) THEN TRUE
    ELSE LET hasLabel == HasLabel(c.Labels, "isengard.enable")
             val == LabelValue(c.Labels, "isengard.enable")
         IN  IF watchAll
             THEN hasLabel /\ val = Str_false
             ELSE ~(hasLabel /\ val = Str_true)

\* Updater.shouldSkip
shouldSkip(selfID, watchAll, c) ==
    IF isSelf(selfID, c.ID) THEN TRUE
    ELSE IF c.Image = <<>> \/ HasPrefix(c.Image, Str_sha256) THEN TRUE
    ELSE LET hasLabel == HasLabel(c.Labels, "isengard.enable")
             val == LabelValue(c.Labels, "isengard.enable")
         IN  IF watchAll
             THEN hasLabel /\ EqualFold(val, Str_false)
             ELSE ~(hasLabel /\ EqualFold(val, Str_true))

\* the repository name and digest of a RepoDigests entry "name@digest"
RepoDigestName(rd) == Prefix(rd, LastIndex(rd, "@"))

RepoDigestDigest(rd) == Suffix(rd, LastIndex(rd, "@") + 1)

\* extractLocalDigest: whether entry rd matches the reference's repository
RepoDigestMatches(rd, ref) ==
    LET repoName == RepoDigestName(rd)
        fullRepo == ref.Registry \o <<"/">> \o ref.Repository
        hubVariants ==
            {Str_dockerio \o <<"/">> \o ref.Repository, ref.Repository}
            \cup (IF HasPrefix(ref.Repository, Str_library)
                  THEN {TrimPrefix(ref.Repository, Str_library)}
                  ELSE {})
    IN  /\ LastIndex(rd, "@") >= 0
        /\ \/ repoName = fullRepo
           \/ repoName = ref.Repository
           \/ ref.Registry = Str_registry1 /\ repoName \in hubVariants

\* an extraction that takes the first recorded entry whatever its repository
extractLocalDigest_firstEntry(c) ==
    IF Len(c.RepoDigests) = 0 THEN <<>>
    ELSE IF LastIndex(c.RepoDigests[1], "@") >= 0
    THEN RepoDigestDigest(c.RepoDigests[1])
    ELSE <<>>

\* extractLocalDigest
extractLocalDigest(c) ==
    With(ParseImageRef(c.Image), LAMBDA ref :
      LET I == {i \in 1..Len(c.RepoDigests) : RepoDigestMatches(c.RepoDigests[i], ref)}
      IN  IF Len(c.RepoDigests) = 0 THEN <<>>
          ELSE IF I # {} THEN RepoDigestDigest(c.RepoDigests[SetMin(I)])
          ELSE IF LastIndex(c.RepoDigests[1], "@") >= 0
          THEN RepoDigestDigest(c.RepoDigests[1])
          ELSE <<>>)

(**************************************************************************)
(* internal/config: Load                                                  *)
(**************************************************************************)

\* the defaults of Load: the interval in seconds, the stop timeout in seconds
DefaultInterval == 1800

DefaultStopTimeout == 30

DecimalDigits == <<"0", "1", "2", "3", "4", "5", "6", "7", "8", "9">>

IsDigit(c) == \E d \in 1..10 : DecimalDigits[d] = c

DigitValue(c) == (CHOOSE d \in 1..10 : DecimalDigits[d] = c) - 1

\* the value of a string of decimal digits
RECURSIVE DecimalValue(_)
DecimalValue(s) ==
    IF s = <<>> THEN 0
    ELSE 10 * DecimalValue(Prefix(s, Len(s) - 1)) + DigitValue(s[Len(s)])

\* s without a leading sign, and the sign
Unsigned(s) == IF s # <<>> /\ s[1] \in {"+", "-"} THEN Tail(s) ELSE s

Sign(s) == IF s # <<>> /\ s[1] = "-" THEN -1 ELSE 1

\* strconv.ParseBool: the spellings it accepts, an error for anything else
ParseBool(v) ==
    IF v \in {<<"1">>, <<"t">>, <<"T">>, <<"T", "R", "U", "E">>, Str_true,
              <<"T", "r", "u", "e">>}
    THEN [value |-> TRUE, err |-> FALSE]
    ELSE IF v \in {<<"0">>, <<"f">>, <<"F">>, <<"F", "A", "L", "S", "E">>, Str_false,
                   <<"F", "a", "l", "s", "e">>}
    THEN [value |-> FALSE, err |-> FALSE]
    ELSE [value |-> FALSE, err |-> TRUE]

\* strconv.Atoi: an optional sign and decimal digits
Atoi(v) ==
    LET d == Unsigned(v)
    IN  IF d # <<>> /\ \A i \in 1..Len(d) : IsDigit(d[i])
        THEN [value |-> Sign(v) * DecimalValue(d), err |-> FALSE]
        ELSE [value |-> 0, err |-> TRUE]

\* seconds in the units of a duration
UnitSeconds(c) == IF c = "h" THEN 3600 ELSE IF c = "m" THEN 60 ELSE 1

\* time.ParseDuration on whole numbers of seconds, minutes or hours: an
\* optional sign, decimal digits and a unit, or "0"; in seconds
ParseDuration(v) ==
    LET d == Unsigned(v)
        n == Prefix(d, Len(d) - 1)
    IN  IF d = <<"0">> THEN [value |-> 0, err |-> FALSE]
        ELSE IF /\ Len(d) >= 2
                /\ d[Len(d)] \in {"s", "m", "h"}
                /\ \A i \in 1..Len(n) : IsDigit(n[i])
        THEN [value |-> Sign(v) * DecimalValue(n) * UnitSeconds(d[Len(d)]), err |-> FALSE]
        ELSE [value |-> 0, err |-> TRUE]

Str_debug == <<"d", "e", "b", "u", "g">>

Str_warn == <<"w", "a", "r", "n">>

Str_error == <<"e", "r", "r", "o", "r">>

Str_info == <<"i", "n", "f", "o">>

\* Load: the Config built from the environment e; an unset variable reads ""
Load(e) ==
    [Interval |->
        IF e.INTERVAL # <<>> /\ ~ParseDuration(e.INTERVAL).err
                             /\ ParseDuration(e.INTERVAL).value > 0
        THEN ParseDuration(e.INTERVAL).value ELSE DefaultInterval,
     RunOnce |-> IF e.RUN_ONCE # <<>> THEN ParseBool(e.RUN_ONCE).value ELSE FALSE,
     Cleanup |-> IF e.CLEANUP # <<>> THEN ParseBool(e.CLEANUP).value ELSE TRUE,
     WatchAll |-> IF e.WATCH_ALL # <<>> THEN ParseBool(e.WATCH_ALL).value ELSE TRUE,
     StopTimeout |->
        IF e.STOP_TIMEOUT # <<>> /\ ~Atoi(e.STOP_TIMEOUT).err
                                 /\ Atoi(e.STOP_TIMEOUT).value > 0
        THEN Atoi(e.STOP_TIMEOUT).value ELSE DefaultStopTimeout,
     LogLevel |->
        IF e.LOG_LEVEL = Str_debug THEN "debug"
        ELSE IF e.LOG_LEVEL = Str_warn THEN "warn"
        ELSE IF e.LOG_LEVEL = Str_error THEN "error"
        ELSE "info"]

(**************************************************************************)
(* internal/updater: detection of the own container id                    *)
(**************************************************************************)

\* length of the hostname the engine gives a container: its short id
HostnameLen == 12

\* length of a container id as the mount description shows it
FullIDLen == 64

HexChars == {"0", "1", "2", "3", "4", "5", "6", "7", "8", "9",
             "a", "b", "c", "d", "e", "f"}

Str_docker == <<"/", "d", "o", "c", "k", "e", "r", "/">>

Str_dockercontainers ==
    Str_docker \o <<"c", "o", "n", "t", "a", "i", "n", "e", "r", "s", "/">>

\* strings.Contains for a substring
ContainsStr(s, sub) ==
    \E i \in 1..(Len(s) - Len(sub) + 1) : SubSeq(s, i, i + Len(sub) - 1) = sub

\* an isHex that accepts every non-empty string
isHex_anything(s) == Len(s) > 0

\* isHex: only lowercase hexadecimal characters, and at least one
isHex(s) == (\A i \in 1..Len(s) : s[i] \in HexChars) /\ Len(s) > 0

\* containerIDPattern.FindString: the leftmost run of FullIDLen hexadecimal
\* characters, empty when there is none
FindContainerID(line) ==
    LET I == {i \in 1..(Len(line) - FullIDLen + 1) :
                \A j \in i..(i + FullIDLen - 1) : line[j] \in HexChars}
    IN  IF I = {} THEN <<>> ELSE SubSeq(line, SetMin(I), SetMin(I) + FullIDLen - 1)

\* parseMountinfo on a file that may be unreadable: the id found in the first
\* line that names /docker/containers/ and holds one
parseMountinfo(file) ==
    IF file.err THEN <<>>
    ELSE LET I == {i \in 1..Len(file.lines) :
                     /\ ContainsStr(file.lines[i], Str_dockercontainers)
                     /\ FindContainerID(file.lines[i]) # <<>>}
         IN  IF I = {} THEN <<>> ELSE FindContainerID(file.lines[SetMin(I)])

\* detectSelfID on the hostname, /proc/1/cpuset and /proc/self/mountinfo of h
detectSelfID(h) ==
    IF ~h.hostname.err /\ Len(h.hostname.name) = HostnameLen /\ isHex(h.hostname.name)
    THEN h.hostname.name
    ELSE IF ~h.cpuset.err /\ HasPrefix(TrimSpace(h.cpuset.data), Str_docker)
    THEN TrimPrefix(TrimSpace(h.cpuset.data), Str_docker)
    ELSE parseMountinfo(h.mountinfo)

(**************************************************************************)
(* The world of the model: containers, images, registry replies           *)
(**************************************************************************)

\* number of containers running beside the updater's own
NumOthers == 2

\* number of external calls (engine, registry, pull) that may fail in a cycle
MaxFailures == 1

Letters == <<"b", "c", "d", "e">>

Digits == <<"1", "2", "3", "4", "5", "6">>

\* container ids: the engine's ids are longer than the ShortIDLen characters
\* of a short id
OwnID == Rep("a", ShortIDLen) \o <<"0", "0">>

OtherID(k) == Rep(Letters[k], ShortIDLen) \o <<"0", "0">>

NewID(k) == Rep("f", ShortIDLen) \o <<"0", Digits[k]>>

ExistingIDs == {OwnID} \cup {OtherID(k) : k \in 1..NumOthers}

AllIDs == ExistingIDs \cup {NewID(k) : k \in 1..(NumOthers + 1)}

\* digests: the engine's recorded digests are well formed; the registry's
\* header value is whatever the registry sends
DigA == Str_sha256 \o Rep("a", ShortIDLen) \o <<"a">>

DigB == Str_sha256 \o Rep("b", ShortIDLen) \o <<"b">>

DigShort == Str_sha256 \o <<"c">>

\* image ids of the engine
ImgOld == Str_sha256 \o Rep("1", ShortIDLen)

ImgNew == Str_sha256 \o Rep("2", ShortIDLen)

Path_a == <<"/", "a">>

Path_b == <<"/", "b">>

NilVolumes == [isNil |-> TRUE, paths |-> {}]

Volumes(paths) == [isNil |-> FALSE, paths |-> paths]

Mount(type, source, target, ro) ==
    [Type |-> type, Source |-> source, Target |-> target, ReadOnly |-> ro]

MountPoint(type, source, dest, rw) ==
    [Type |-> type, Source |-> source, Destination |-> dest, RW |-> rw]

Absent ==
    [Name |-> <<>>, State |-> "absent", ListImage |-> <<>>, ImageID |-> <<>>,
     RepoDigests |-> <<>>,
     Config |-> [Image |-> <<>>, Labels |-> {}, Volumes |-> NilVolumes],
     HostConfig |-> [Binds |-> <<>>, Mounts |-> <<>>],
     Mounts |-> <<>>, Networks |-> {}]

\* the updater's own container: a declared volume, a bind and the mount point
\* the engine reports for that bind, all on the same path
OwnContainer(listedSha) ==
    [Name |-> <<"/", "i">>, State |-> "running",
     ListImage |-> IF listedSha THEN ImgOld ELSE <<"u", "/", "i">>,
     ImageID |-> ImgOld,
     RepoDigests |-> << <<"u", "/", "i", "@">> \o DigA >>,
     Config |-> [Image |-> <<"u", "/", "i">>, Labels |-> {},
                 Volumes |-> Volumes({Path_a})],
     HostConfig |-> [Binds |-> << <<"s", ":">> \o Path_a >>, Mounts |-> <<>>],
     Mounts |-> << MountPoint("bind", <<"s">>, Path_a, TRUE) >>,
     Networks |-> {"n1", "n2"}]

\* the other containers: a library image with a recorded digest and two
\* networks; a private-registry image without recorded digests, labelled;
\* a container listed under a bare image id
OtherContainer(k) ==
    IF k = 1
    THEN [Name |-> <<"/", "b">>, State |-> "running",
          ListImage |-> <<"n">>, ImageID |-> ImgOld,
          RepoDigests |-> << <<"n", "@">> \o DigA >>,
          Config |-> [Image |-> <<"n">>, Labels |-> {<<"app", <<"x">>>>},
                      Volumes |-> Volumes({Path_a, Path_b})],
          HostConfig |-> [Binds |-> <<>>,
                          Mounts |-> << Mount("volume", <<"v">>, Path_a, FALSE) >>],
          Mounts |-> << MountPoint("volume", <<"v">>, Path_a, TRUE) >>,
          Networks |-> {"n1", "n2"}]
    ELSE IF k = 2
    THEN [Name |-> <<"/", "c">>, State |-> "running",
          ListImage |-> <<"h", ".", "x", "/", "r", ":", "t">>, ImageID |-> ImgOld,
          RepoDigests |-> <<>>,
          Config |-> [Image |-> <<"h", ".", "x", "/", "r", ":", "t">>,
                      Labels |-> {<<"isengard.enable", <<"T", "R", "U", "E">>>>},
                      Volumes |-> NilVolumes],
          HostConfig |-> [Binds |-> << <<"s", ":">> \o Path_a \o <<":", "r", "o">> >>,
                          Mounts |-> <<>>],
          Mounts |-> <<>>,
          Networks |-> {}]
    ELSE [Name |-> <<"/", Letters[k]>>, State |-> "running",
          ListImage |-> ImgOld, ImageID |-> ImgOld,
          RepoDigests |-> <<>>,
          Config |-> [Image |-> ImgOld,
                      Labels |-> {<<"isengard.enable", Str_true>>},
                      Volumes |-> NilVolumes],
          HostConfig |-> [Binds |-> <<>>, Mounts |-> <<>>],
          Mounts |-> <<>>,
          Networks |-> {"n1"}]

InitContainers(listedSha) ==
    [id \in AllIDs |->
        IF id = OwnID THEN OwnContainer(listedSha)
        ELSE IF \E k \in 1..NumOthers : id = OtherID(k)
        THEN OtherContainer(CHOOSE k \in 1..NumOthers : id = OtherID(k))
        ELSE Absent]

\* the engine lists the running containers, the updater's own first, the
\* ones created since last
ListOrder ==
    <<OwnID>> \o [k \in 1..NumOthers |-> OtherID(k)]
              \o [k \in 1..(NumOthers + 1) |-> NewID(k)]

\* replies of a registry to one CheckDigest
NoReply == [doErr |-> TRUE, status |-> 0, digest |-> <<>>, challenge |-> <<>>]

NoToken ==
    [doErr |-> TRUE, status |-> 0, decodeErr |-> FALSE, token |-> <<>>, access_token |-> <<>>]

Reply(status, digest, challenge) ==
    [doErr |-> FALSE, status |-> status, digest |-> digest, challenge |-> challenge]

Challenge == Str_Bearer \o Str_realm \o <<"=", "\"", "h", "\"">>

RegistryReplies ==
    {[first |-> Reply(200, d, <<>>), token |-> NoToken, second |-> NoReply] :
        d \in {DigA, DigB, DigShort, <<>>}}
    \cup {[first |-> Reply(401, <<>>, Challenge),
           token |-> [doErr |-> FALSE, status |-> 200, decodeErr |-> FALSE,
                      token |-> <<>>, access_token |-> <<"T">>],
           second |-> Reply(200, d, <<>>)] : d \in {DigA, DigB}}
    \cup {[first |-> Reply(401, <<>>, <<>>), token |-> NoToken, second |-> NoReply],
          [first |-> Reply(500, <<>>, <<>>), token |-> NoToken, second |-> NoReply],
          [first |-> NoReply, token |-> NoToken, second |-> NoReply]}

\* results of docker.PullImage: (image id, error)
PullResults == {[err |-> TRUE, id |-> <<>>], [err |-> FALSE, id |-> ImgOld],
                [err |-> FALSE, id |-> ImgNew]}

(**************************************************************************)
(* State                                                                  *)
(**************************************************************************)

VARIABLES
    u,           \* the Updater: detected selfID and the configuration
    revision,    \* which copy of RunCycle/trySelfUpdate under src/ runs
    containers,  \* the engine: container id -> container
    created,     \* number of containers the engine has created
    calls,       \* the external calls issued so far, in order
    failures,    \* number of external calls that failed
    pc,          \* where the updater process is
    rc,          \* RunCycle's locals
    fr,          \* the locals of the Recreate or RecreateSelf in progress
    planIn,      \* recreation plans: an inspected configuration
    planOut,     \* recreation plans: the plan built from planIn
    probes,      \* digest probes: the CheckDigest calls made, with replies and result
    listed,      \* filter: the containers a listing gave to RunCycle's filter
    ctx,         \* the cycle's context: cancelled or not, and the signals still to come
    refs,        \* references: the references parsed and local digests extracted, with results
    host,        \* self detection: hostname, cgroup path file and mount description of the process
    cfg,         \* configuration: the ISENGARD_* variables and the Config loaded from them
    original     \* handover: the instance whose RecreateSelf started this one, if any

vars == <<u, revision, containers, created, calls, failures, pc, rc, fr, planIn, planOut, probes, listed, ctx, refs, host, cfg, original>>

\* the two copies of RunCycle and trySelfUpdate kept under src/
Revisions == {"part_005", "updater.go"}

\* one record of the log: function `by`, working on container `for`, issued
\* operation `op` on object `id` with arguments `arg`, and it succeeded or not;
\* op "return" records what checkForUpdate returned
Call(by, for, op, id, ok, arg) ==
    [by |-> by, for |-> for, op |-> op, id |-> id, ok |-> ok, arg |-> arg]

NoArg == [none |-> TRUE]

\* the records of a call and, when the function returns after it, of what
\* Recreate or RecreateSelf returned: (newID, nil) or ("", err)
ThenReturn(call, returns, newID, err) ==
    IF returns
    THEN <<call, Call(call.by, call.for, "return", newID, ~err, NoArg)>>
    ELSE <<call>>

\* the container the running updater process lives in: the one present from
\* the start, or the replacement a RecreateSelf created and started; a stop
\* or a removal of that container ends the process
ProcessID == IF original = NoArg THEN OwnID ELSE NewID(1)

\* no self detection under way
NoHost == [none |-> TRUE]

NoFrame ==
    [fn |-> "none", step |-> "none", id |-> <<>>, image |-> <<>>,
     inspect |-> NoArg, plan |-> NoArg, pending |-> {}, newID |-> <<>>]

NoPlan == [inspect |-> NoArg, image |-> <<>>]

\* container.Info of a listed container (ListRunning)
Info(id) ==
    [ID |-> id,
     Name |-> ContainerName(containers[id].Name),
     Image |-> containers[id].ListImage,
     ImageID |-> containers[id].ImageID,
     Labels |-> containers[id].Config.Labels,
     State |-> containers[id].State,
     RepoDigests |-> containers[id].RepoDigests]

\* the result of ContainerInspect
InspectOf(id) ==
    [Name |-> containers[id].Name,
     Config |-> containers[id].Config,
     HostConfig |-> containers[id].HostConfig,
     Mounts |-> containers[id].Mounts,
     Networks |-> containers[id].Networks]

Exists(id) == containers[id].State # "absent"

NameInUse(name) == \E id \in AllIDs : Exists(id) /\ containers[id].Name = name

\* the outcomes an external call may have: it succeeds only if the engine can
\* carry it out, and fails for no reason of its own only within MaxFailures
Outcomes(possible) ==
    {ok \in BOOLEAN : (ok => possible) /\ ((~ok /\ possible) => failures < MaxFailures)}

Failed(ok, possible) == IF ~ok /\ possible THEN 1 ELSE 0

\* a check that met a failure (of the registry probe, of the pull, or of both)
\* counts as one failure
NumFailed(cs) == IF \E i \in 1..Len(cs) : ~cs[i].ok THEN 1 ELSE 0

\* context.Background(): never cancelled, and no signal reaches it
Background == [cancelled |-> FALSE, signals |-> 0]

\* the context trySelfUpdate hands to RecreateSelf
recreateCtx_cycle == ctx

recreateCtx == Background

\* the outcomes of an engine call made on context c: the client refuses a call
\* on a cancelled context
OutcomesOn(c, possible) == IF c.cancelled THEN {FALSE} ELSE Outcomes(possible)

FailedOn(c, ok, possible) == IF c.cancelled THEN 0 ELSE Failed(ok, possible)

\* the results docker.PullImage may give on context c
PullsOn(c) == IF c.cancelled THEN {p \in PullResults : p.err} ELSE PullResults

\* the failures of a check made on context c; the registry probe carries no
\* context, and a pull refused for a cancelled context is no failure
NumFailedOn(c, cs) ==
    IF c.cancelled
    THEN IF \E i \in 1..Len(cs) : cs[i].op = "CheckDigest" /\ ~cs[i].ok THEN 1 ELSE 0
    ELSE NumFailed(cs)

\* the updater at the start of RunCycle, the cycle running on context c
Start(c) ==
    /\ u \in [selfID : {<<>>, Prefix(OwnID, ShortIDLen), OwnID},
              SelfUpdate : BOOLEAN, Cleanup : BOOLEAN, WatchAll : BOOLEAN]
    /\ revision \in Revisions
    /\ \E listedSha \in BOOLEAN : containers = InitContainers(listedSha)
    /\ created = 0
    /\ calls = <<>>
    /\ failures = 0
    /\ pc = "RunCycle"
    /\ rc = [candidates |-> <<>>, self |-> <<>>, toUpdate |-> <<>>,
             oldImageIDs |-> {}, i |-> 1, updated |-> 0, ret |-> NoArg]
    /\ fr = NoFrame
    /\ planIn = NoPlan
    /\ planOut = NoArg
    /\ probes = <<>>
    /\ listed = <<>>
    /\ ctx = c
    /\ refs = <<>>
    /\ host = NoHost
    /\ cfg = NoArg
    /\ original = NoArg

Init == Start(Background)

(**************************************************************************)
(* internal/updater: RunCycle                                             *)
(**************************************************************************)

\* RunCycle's return
Return(frame, updated, err) == [frame EXCEPT !.ret = [updated |-> updated, err |-> err]]

\* a filter that sets self aside only when self-update is enabled and tests
\* the others for labels and image alone
RECURSIVE Candidates_selfWhenDisabled(_, _)
Candidates_selfWhenDisabled(self, infos) ==
    IF infos = <<>> THEN <<>>
    ELSE IF \/ isSelf(self.selfID, Head(infos).ID) /\ self.SelfUpdate
            \/ shouldSkip(<<>>, self.WatchAll, Head(infos))
    THEN Candidates_selfWhenDisabled(self, Tail(infos))
    ELSE <<Head(infos)>> \o Candidates_selfWhenDisabled(self, Tail(infos))

\* the candidates of a listing: the containers that are neither self nor skipped
RECURSIVE Candidates(_, _)
Candidates(self, infos) ==
    IF infos = <<>> THEN <<>>
    ELSE IF isSelf(self.selfID, Head(infos).ID) \/ shouldSkip(self.selfID, self.WatchAll, Head(infos))
    THEN Candidates(self, Tail(infos))
    ELSE <<Head(infos)>> \o Candidates(self, Tail(infos))

\* selfContainer: the last listed container that is self, when self-update is
\* enabled (a sequence of at most one Info)
SelfContainer(self, infos) ==
    LET I == {i \in 1..Len(infos) : isSelf(self.selfID, infos[i].ID)}
    IN  IF self.SelfUpdate /\ I # {} THEN <<infos[SetMax(I)]>> ELSE <<>>

\* a RunCycle that carries on with no container when the listing failed
ListAndFilter_goesOn ==
    /\ pc = "RunCycle"
    /\ \E ok \in OutcomesOn(ctx, TRUE) :
        LET running == SelectSeq(ListOrder, LAMBDA id : containers[id].State = "running")
            infos == [i \in 1..Len(running) |-> Info(running[i])]
        IN  /\ calls' = Append(calls, Call("RunCycle", <<>>, "ContainerList", <<>>, ok, NoArg))
            /\ failures' = failures + FailedOn(ctx, ok, TRUE)
            /\ rc' = IF ok THEN [rc EXCEPT !.candidates = Candidates(u, infos),
                                           !.self = SelfContainer(u, infos)]
                           ELSE rc
            /\ pc' = "check"
    /\ UNCHANGED <<u, revision, containers, created, fr, planIn, planOut, probes, listed, ctx, refs, host, cfg, original>>

\* RunCycle, from its start to the first checkForUpdate: list the running
\* containers and separate self from the candidates
ListAndFilter ==
    /\ pc = "RunCycle"
    /\ \E ok \in OutcomesOn(ctx, TRUE) :
        LET running == SelectSeq(ListOrder, LAMBDA id : containers[id].State = "running")
            infos == [i \in 1..Len(running) |-> Info(running[i])]
        IN  /\ calls' = Append(calls, Call("RunCycle", <<>>, "ContainerList", <<>>, ok, NoArg))
            /\ failures' = failures + FailedOn(ctx, ok, TRUE)
            /\ IF ok
               THEN /\ rc' = [rc EXCEPT !.candidates = Candidates(u, infos),
                                        !.self = SelfContainer(u, infos)]
                    /\ pc' = "check"
               ELSE /\ rc' = Return(rc, 0, TRUE)
                    /\ pc' = "returned"
    /\ UNCHANGED <<u, revision, containers, created, fr, planIn, planOut, probes, listed, ctx, refs, host, cfg, original>>

\* the record of docker.PullImage for container c and of checkForUpdate's return
PullCall(c, pull) ==
    Call("checkForUpdate", c.ID, "PullImage", c.Image, ~pull.err,
         [id |-> pull.id, was |-> c.ImageID])

ReturnCall(c, needs, err) ==
    Call("checkForUpdate", c.ID, "return", c.Image, ~err, [needs |-> needs])

\* pullAndCompare reporting an update after every successful pull
pullAndCompare_anyPull(c, pull) ==
    [needs |-> ~pull.err, err |-> pull.err, panic |-> FALSE,
     calls |-> <<PullCall(c, pull), ReturnCall(c, ~pull.err, pull.err)>>]

\* Updater.pullAndCompare on container c, given the result docker.PullImage
\* gives: [needs, err, panic, calls]
pullAndCompare(c, pull) ==
    LET differs == ~pull.err /\ pull.id # c.ImageID
    IN  IF differs /\ (Len(c.ImageID) < ShortIDLen \/ Len(pull.id) < ShortIDLen)
        THEN [needs |-> FALSE, err |-> FALSE, panic |-> TRUE, calls |-> <<PullCall(c, pull)>>]
        ELSE [needs |-> differs, err |-> pull.err, panic |-> FALSE,
              calls |-> <<PullCall(c, pull), ReturnCall(c, differs, pull.err)>>]

\* checkForUpdate pulling whatever the digests say
checkForUpdate_alwaysPulls(c, reply, pull) ==
    [needs |-> ~pull.err, err |-> pull.err, panic |-> FALSE,
     calls |-> <<Call("checkForUpdate", c.ID, "CheckDigest", c.Image,
                      ~CheckDigest(c.Image, reply).err,
                      [digest |-> CheckDigest(c.Image, reply).digest,
                       local |-> extractLocalDigest(c)]),
                 PullCall(c, pull), ReturnCall(c, ~pull.err, pull.err)>>]

\* Updater.checkForUpdate on container c, given the registry's replies and the
\* result docker.PullImage would give: [needs, err, panic, calls]
checkForUpdate(c, reply, pull) ==
    With(CheckDigest(c.Image, reply), LAMBDA cd :
    With(extractLocalDigest(c), LAMBDA localDigest :
    With(pullAndCompare(c, pull), LAMBDA fallback :
    LET cdCall == Call("checkForUpdate", c.ID, "CheckDigest", c.Image, ~cd.err,
                       [digest |-> cd.digest, local |-> localDigest])
    IN  IF cd.err \/ localDigest = <<>>
        THEN [fallback EXCEPT !.calls = <<cdCall>> \o @]
        ELSE IF cd.digest = localDigest
        THEN IF Len(cd.digest) < DigestLogLen
             THEN [needs |-> FALSE, err |-> FALSE, panic |-> TRUE, calls |-> <<cdCall>>]
             ELSE [needs |-> FALSE, err |-> FALSE, panic |-> FALSE,
                   calls |-> <<cdCall, ReturnCall(c, FALSE, FALSE)>>]
        ELSE IF Len(localDigest) < DigestLogLen \/ Len(cd.digest) < DigestLogLen
        THEN [needs |-> FALSE, err |-> FALSE, panic |-> TRUE, calls |-> <<cdCall>>]
        ELSE [needs |-> ~pull.err, err |-> pull.err, panic |-> FALSE,
              calls |-> <<cdCall, PullCall(c, pull), ReturnCall(c, ~pull.err, pull.err)>>])))

\* the check loop queueing a container whose check returned an error
CheckCandidate_queuesFailed ==
    /\ pc = "check"
    /\ rc.i <= Len(rc.candidates)
    /\ LET c == rc.candidates[rc.i]
       IN  \E r \in {checkForUpdate(c, reply, pull) :
                        reply \in RegistryReplies, pull \in PullsOn(ctx)} :
            /\ failures + NumFailedOn(ctx, r.calls) <= MaxFailures
            /\ failures' = failures + NumFailedOn(ctx, r.calls)
            /\ calls' = calls \o r.calls
            /\ IF r.panic
               THEN pc' = "panicked" /\ rc' = rc
               ELSE /\ pc' = "check"
                    /\ rc' = [rc EXCEPT
                                !.i = @ + 1,
                                !.toUpdate = IF r.err \/ r.needs THEN Append(@, c) ELSE @,
                                !.oldImageIDs = IF r.err \/ r.needs
                                                THEN @ \cup {<<c.ID, c.ImageID>>} ELSE @]
    /\ UNCHANGED <<u, revision, containers, created, fr, planIn, planOut, probes, listed, ctx, refs, host, cfg, original>>

\* RunCycle's check loop: one candidate
CheckCandidate ==
    /\ pc = "check"
    /\ rc.i <= Len(rc.candidates)
    /\ LET c == rc.candidates[rc.i]
       IN  \E r \in {checkForUpdate(c, reply, pull) :
                        reply \in RegistryReplies, pull \in PullsOn(ctx)} :
            /\ failures + NumFailedOn(ctx, r.calls) <= MaxFailures
            /\ failures' = failures + NumFailedOn(ctx, r.calls)
            /\ calls' = calls \o r.calls
            /\ IF r.panic
               THEN pc' = "panicked" /\ rc' = rc
               ELSE /\ pc' = "check"
                    /\ rc' = [rc EXCEPT
                                !.i = @ + 1,
                                !.toUpdate = IF ~r.err /\ r.needs THEN Append(@, c) ELSE @,
                                !.oldImageIDs = IF ~r.err /\ r.needs
                                                THEN @ \cup {<<c.ID, c.ImageID>>} ELSE @]
    /\ UNCHANGED <<u, revision, containers, created, fr, planIn, planOut, probes, listed, ctx, refs, host, cfg, original>>

\* RunCycle after the update loop (or, in part_005, when there is nothing to
\* update): try the self-update when self was found, else return
AfterUpdates(frame) ==
    IF frame.self # <<>>
    THEN [pc |-> "self", rc |-> [frame EXCEPT !.i = 1]]
    ELSE [pc |-> "returned", rc |-> Return(frame, frame.updated, FALSE)]

\* RunCycle between the check loop and the update loop
EndChecks ==
    /\ pc = "check"
    /\ rc.i > Len(rc.candidates)
    /\ \/ /\ rc.toUpdate # <<>>
          /\ pc' = "update"
          /\ rc' = [rc EXCEPT !.i = 1]
       \/ /\ rc.toUpdate = <<>>
          /\ revision = "part_005"
          /\ pc' = AfterUpdates(rc).pc
          /\ rc' = AfterUpdates(rc).rc
       \/ /\ rc.toUpdate = <<>>
          /\ revision = "updater.go"
          /\ pc' = "returned"
          /\ rc' = Return(rc, 0, FALSE)
    /\ UNCHANGED <<u, revision, containers, created, calls, failures, fr, planIn, planOut, probes, listed, ctx, refs, host, cfg, original>>

\* RunCycle at the end of the update loop
EndUpdates ==
    /\ pc = "update"
    /\ fr.fn = "none"
    /\ rc.i > Len(rc.toUpdate)
    /\ pc' = AfterUpdates(rc).pc
    /\ rc' = AfterUpdates(rc).rc
    /\ UNCHANGED <<u, revision, containers, created, calls, failures, fr, planIn, planOut, probes, listed, ctx, refs, host, cfg, original>>

(**************************************************************************)
(* internal/container: Recreate                                           *)
(**************************************************************************)

\* the container Recreate is called on: the current one of RunCycle's update
\* loop, or (updater.go's trySelfUpdate) self
RecreateTarget == IF pc = "update" THEN rc.toUpdate[rc.i] ELSE rc.self[1]

\* a caller that gives up the cycle when Recreate returned an error
RecreateFailed_aborts ==
    [pc |-> "returned", rc |-> Return(rc, rc.updated, TRUE)]

\* the caller after Recreate returned an error: RunCycle's loop continues with
\* the next container; trySelfUpdate returns the error and RunCycle returns
RecreateFailed ==
    IF pc = "update"
    THEN [pc |-> "update", rc |-> [rc EXCEPT !.i = @ + 1]]
    ELSE [pc |-> "returned", rc |-> Return(rc, rc.updated, FALSE)]

\* the container the engine creates from a plan
CreatedContainer(name, plan, networks) ==
    [Name |-> <<"/">> \o name, State |-> "created",
     ListImage |-> plan.config.Image, ImageID |-> ImgNew, RepoDigests |-> <<>>,
     Config |-> plan.config, HostConfig |-> plan.hostConfig,
     Mounts |-> <<>>, Networks |-> networks]

CreateArg(name, plan, networks) ==
    [name |-> name, config |-> plan.config, hostConfig |-> plan.hostConfig,
     networks |-> networks]

\* a create call given every network of the inspected container
FirstNetworks_all(networks) == {networks}

\* the networks ContainerCreate may be given: the one the map iteration of
\* the inspected networks yields first, none when there are none
FirstNetworks(networks) ==
    IF networks = {} THEN {{}} ELSE {{n} : n \in networks}

CanCreate(name) == ~NameInUse(<<"/">> \o name) /\ created < NumOthers + 1

RecreateInspect ==
    /\ pc \in {"update", "selfOld"}
    /\ fr.fn = "none"
    /\ pc = "update" => rc.i <= Len(rc.toUpdate)
    /\ \E ok \in OutcomesOn(ctx, Exists(RecreateTarget.ID)) :
        LET c == RecreateTarget
        IN  /\ calls' = calls \o ThenReturn(Call("Recreate", c.ID, "ContainerInspect", c.ID, ok,
                                               [image |-> c.Image]), ~ok, <<>>, TRUE)
            /\ failures' = failures + FailedOn(ctx, ok, Exists(c.ID))
            /\ IF ok
               THEN /\ fr' = [NoFrame EXCEPT !.fn = "Recreate", !.step = "stop",
                                             !.id = c.ID, !.image = c.Image,
                                             !.inspect = InspectOf(c.ID)]
                    /\ UNCHANGED <<pc, rc>>
               ELSE /\ fr' = NoFrame
                    /\ pc' = RecreateFailed.pc
                    /\ rc' = RecreateFailed.rc
    /\ UNCHANGED <<u, revision, containers, created, planIn, planOut, probes, listed, ctx, refs, host, cfg, original>>

\* Recreate going from the stop to the create, the removal left out
RecreateStop_skipsRemove ==
    /\ pc \in {"update", "selfOld"}
    /\ fr.fn = "Recreate"
    /\ fr.step = "stop"
    /\ \E ok \in OutcomesOn(ctx, Exists(fr.id)) :
        /\ calls' = Append(calls, Call("Recreate", fr.id, "ContainerStop", fr.id, ok, NoArg))
        /\ failures' = failures + FailedOn(ctx, ok, Exists(fr.id))
        /\ containers' = IF ok THEN [containers EXCEPT ![fr.id].State = "exited"]
                         ELSE containers
        /\ IF ok /\ fr.id = ProcessID
           THEN pc' = "dead" /\ fr' = fr
           ELSE pc' = pc /\ fr' = [fr EXCEPT !.step = "create"]
    /\ UNCHANGED <<u, revision, created, rc, planIn, planOut, probes, listed, ctx, refs, host, cfg, original>>

\* a failing stop is logged only; stopping the updater's own container ends
\* the updater process
RecreateStop ==
    /\ pc \in {"update", "selfOld"}
    /\ fr.fn = "Recreate"
    /\ fr.step = "stop"
    /\ \E ok \in OutcomesOn(ctx, Exists(fr.id)) :
        /\ calls' = Append(calls, Call("Recreate", fr.id, "ContainerStop", fr.id, ok, NoArg))
        /\ failures' = failures + FailedOn(ctx, ok, Exists(fr.id))
        /\ containers' = IF ok THEN [containers EXCEPT ![fr.id].State = "exited"]
                         ELSE containers
        /\ IF ok /\ fr.id = ProcessID
           THEN pc' = "dead" /\ fr' = fr
           ELSE pc' = pc /\ fr' = [fr EXCEPT !.step = "remove"]
    /\ UNCHANGED <<u, revision, created, rc, planIn, planOut, probes, listed, ctx, refs, host, cfg, original>>

\* a Recreate that goes on to the create when the removal failed
RecreateRemove_goesOn ==
    /\ pc \in {"update", "selfOld"}
    /\ fr.fn = "Recreate"
    /\ fr.step = "remove"
    /\ \E ok \in OutcomesOn(ctx, Exists(fr.id)) :
        /\ calls' = Append(calls, Call("Recreate", fr.id, "ContainerRemove", fr.id, ok, NoArg))
        /\ failures' = failures + FailedOn(ctx, ok, Exists(fr.id))
        /\ containers' = IF ok THEN [containers EXCEPT ![fr.id] = Absent] ELSE containers
        /\ IF ok /\ fr.id = ProcessID
           THEN pc' = "dead" /\ fr' = fr /\ rc' = rc
           ELSE pc' = pc /\ fr' = [fr EXCEPT !.step = "create"] /\ rc' = rc
    /\ UNCHANGED <<u, revision, created, planIn, planOut, probes, listed, ctx, refs, host, cfg, original>>

RecreateRemove ==
    /\ pc \in {"update", "selfOld"}
    /\ fr.fn = "Recreate"
    /\ fr.step = "remove"
    /\ \E ok \in OutcomesOn(ctx, Exists(fr.id)) :
        /\ calls' = calls \o ThenReturn(Call("Recreate", fr.id, "ContainerRemove", fr.id, ok,
                                           NoArg), ~ok, <<>>, TRUE)
        /\ failures' = failures + FailedOn(ctx, ok, Exists(fr.id))
        /\ containers' = IF ok THEN [containers EXCEPT ![fr.id] = Absent] ELSE containers
        /\ IF ok /\ fr.id = ProcessID
           THEN pc' = "dead" /\ fr' = fr /\ rc' = rc
           ELSE IF ok
           THEN pc' = pc /\ fr' = [fr EXCEPT !.step = "create"] /\ rc' = rc
           ELSE pc' = RecreateFailed.pc /\ fr' = NoFrame /\ rc' = RecreateFailed.rc
    /\ UNCHANGED <<u, revision, created, planIn, planOut, probes, listed, ctx, refs, host, cfg, original>>

\* build the plan, prepare the networking and create the replacement
RecreateCreate ==
    /\ pc \in {"update", "selfOld"}
    /\ fr.fn = "Recreate"
    /\ fr.step = "create"
    /\ LET name == ContainerName(fr.inspect.Name)
           plan == BuildPlan(fr.inspect, fr.image)
       IN  \E first \in FirstNetworks(fr.inspect.Networks), ok \in OutcomesOn(ctx, CanCreate(name)) :
            LET newID == IF ok THEN NewID(created + 1) ELSE <<>>
            IN  /\ calls' = calls \o ThenReturn(Call("Recreate", fr.id, "ContainerCreate", newID,
                                                   ok, CreateArg(name, plan, first)),
                                              ~ok, <<>>, TRUE)
                /\ failures' = failures + FailedOn(ctx, ok, CanCreate(name))
                /\ IF ok
                   THEN /\ containers' = [containers EXCEPT
                                            ![newID] = CreatedContainer(name, plan, first)]
                        /\ created' = created + 1
                        /\ fr' = [fr EXCEPT !.plan = plan, !.newID = newID,
                                            !.pending = fr.inspect.Networks \ first,
                                            !.step = IF fr.inspect.Networks \ first = {}
                                                     THEN "start" ELSE "connect"]
                        /\ UNCHANGED <<pc, rc>>
                   ELSE /\ UNCHANGED <<containers, created>>
                        /\ fr' = NoFrame
                        /\ pc' = RecreateFailed.pc
                        /\ rc' = RecreateFailed.rc
    /\ UNCHANGED <<u, revision, planIn, planOut, probes, listed, ctx, refs, host, cfg, original>>

\* connect one of the additional networks; a failure is logged only
RecreateConnect ==
    /\ pc \in {"update", "selfOld"}
    /\ fr.fn = "Recreate"
    /\ fr.step = "connect"
    /\ \E n \in fr.pending, ok \in OutcomesOn(ctx, Exists(fr.newID)) :
        /\ calls' = Append(calls, Call("Recreate", fr.id, "NetworkConnect", fr.newID, ok,
                                       [network |-> n]))
        /\ failures' = failures + FailedOn(ctx, ok, Exists(fr.newID))
        /\ containers' = IF ok THEN [containers EXCEPT ![fr.newID].Networks = @ \cup {n}]
                         ELSE containers
        /\ fr' = [fr EXCEPT !.pending = @ \ {n},
                            !.step = IF fr.pending \ {n} = {} THEN "start" ELSE "connect"]
    /\ UNCHANGED <<u, revision, created, pc, rc, planIn, planOut, probes, listed, ctx, refs, host, cfg, original>>

\* a cleanup that does not look at the configuration
CleanupWanted_always == \E e \in rc.oldImageIDs : e[1] = fr.id

\* RunCycle after a successful Recreate: the old image is removed when cleanup
\* is enabled and the container's old image id was recorded
CleanupWanted == u.Cleanup /\ \E e \in rc.oldImageIDs : e[1] = fr.id

\* start the replacement; on success RunCycle counts the update and removes
\* the old image when Cleanup is set, or trySelfUpdate (updater.go) returns
RecreateStart ==
    /\ pc \in {"update", "selfOld"}
    /\ fr.fn = "Recreate"
    /\ fr.step = "start"
    /\ \E ok \in OutcomesOn(ctx, containers[fr.newID].State = "created") :
        /\ calls' = calls \o ThenReturn(Call("Recreate", fr.id, "ContainerStart", fr.newID, ok,
                                           NoArg), TRUE, IF ok THEN fr.newID ELSE <<>>, ~ok)
        /\ failures' = failures + FailedOn(ctx, ok, containers[fr.newID].State = "created")
        /\ containers' = IF ok THEN [containers EXCEPT ![fr.newID].State = "running"]
                         ELSE containers
        /\ IF ~ok
           THEN pc' = RecreateFailed.pc /\ fr' = NoFrame /\ rc' = RecreateFailed.rc
           ELSE IF pc = "selfOld"
           THEN pc' = "returned" /\ fr' = NoFrame /\ rc' = Return(rc, rc.updated, FALSE)
           ELSE IF CleanupWanted
           THEN pc' = pc /\ fr' = [fr EXCEPT !.step = "cleanup"]
                         /\ rc' = [rc EXCEPT !.updated = @ + 1]
           ELSE pc' = pc /\ fr' = NoFrame
                         /\ rc' = [rc EXCEPT !.updated = @ + 1, !.i = @ + 1]
    /\ UNCHANGED <<u, revision, created, planIn, planOut, probes, listed, ctx, refs, host, cfg, original>>

\* docker.RemoveImage of the container's old image; its error is logged only
CleanupImage ==
    /\ pc \in {"update", "selfOld"}
    /\ fr.fn = "Recreate"
    /\ fr.step = "cleanup"
    /\ \E ok \in OutcomesOn(ctx, TRUE) :
        LET oldID == (CHOOSE e \in rc.oldImageIDs : e[1] = fr.id)[2]
        IN  /\ calls' = Append(calls, Call("RunCycle", fr.id, "ImageRemove", oldID, ok,
                                           [container |-> fr.id]))
            /\ failures' = failures + FailedOn(ctx, ok, TRUE)
    /\ fr' = NoFrame
    /\ rc' = [rc EXCEPT !.i = @ + 1]
    /\ UNCHANGED <<u, revision, containers, created, pc, planIn, planOut, probes, listed, ctx, refs, host, cfg, original>>

(**************************************************************************)
(* internal/updater: trySelfUpdate                                        *)
(**************************************************************************)

\* trySelfUpdate up to its call of RecreateSelf (part_005) or Recreate
\* (updater.go).  part_005 first recovers the image reference from the
\* container's configuration when the listing gave a bare image id.
TrySelfUpdate ==
    /\ pc = "self"
    /\ LET self0 == rc.self[1]
           recover == revision = "part_005" /\ HasPrefix(self0.Image, Str_sha256)
           cfgImage == containers[self0.ID].Config.Image
       IN  \E iok \in (IF recover THEN OutcomesOn(ctx, Exists(self0.ID)) ELSE {TRUE}) :
            LET recovered == recover /\ iok /\ ~HasPrefix(cfgImage, Str_sha256)
                self == IF recovered THEN [self0 EXCEPT !.Image = cfgImage] ELSE self0
                icalls == IF recover
                          THEN <<Call("trySelfUpdate", self0.ID, "ContainerInspect", self0.ID, iok, NoArg)>>
                          ELSE <<>>
                ifail == IF recover THEN FailedOn(ctx, iok, Exists(self0.ID)) ELSE 0
            IN  IF recovered /\ Len(self0.Image) < DigestLogLen
                THEN /\ calls' = calls \o icalls
                     /\ failures' = failures + ifail
                     /\ pc' = "panicked"
                     /\ rc' = rc
                ELSE \E r \in {checkForUpdate(self, reply, pull) :
                                 reply \in RegistryReplies, pull \in PullsOn(ctx)} :
                     /\ failures + ifail + NumFailedOn(ctx, r.calls) <= MaxFailures
                     /\ failures' = failures + ifail + NumFailedOn(ctx, r.calls)
                     /\ calls' = calls \o icalls \o r.calls
                     /\ IF r.panic
                        THEN pc' = "panicked" /\ rc' = rc
                        ELSE IF r.err \/ ~r.needs
                        THEN pc' = "returned" /\ rc' = Return(rc, rc.updated, FALSE)
                        ELSE /\ pc' = IF revision = "part_005" THEN "selfNew" ELSE "selfOld"
                             /\ rc' = [rc EXCEPT !.self = <<self>>]
    /\ UNCHANGED <<u, revision, containers, created, fr, planIn, planOut, probes, listed, ctx, refs, host, cfg, original>>

(**************************************************************************)
(* internal/container: RecreateSelf                                       *)
(**************************************************************************)

\* RecreateSelf returned to trySelfUpdate, which returns to RunCycle, which
\* returns (updated, nil) whatever the outcome
\* a cycle that counts the updater's own container among the updated ones
SelfReturned_counted == Return(rc, rc.updated + 1, FALSE)

\* RunCycle after trySelfUpdate returned: its error is logged only, the
\* number of updated containers is the one of the update loop
SelfReturned == Return(rc, rc.updated, FALSE)

\* trySelfUpdate after RecreateSelf returned without error: the warning
\* "self-update: process still running after recreate"
StillRunningWarning(id) == Call("trySelfUpdate", id, "Warn", <<>>, TRUE, NoArg)

\* inspect self and build the plan
SelfInspect ==
    /\ pc = "selfNew"
    /\ fr.fn = "none"
    /\ \E ok \in OutcomesOn(recreateCtx, Exists(rc.self[1].ID)) :
        LET c == rc.self[1]
        IN  /\ calls' = calls \o ThenReturn(Call("RecreateSelf", c.ID, "ContainerInspect", c.ID,
                                               ok, [image |-> c.Image]), ~ok, <<>>, TRUE)
            /\ failures' = failures + FailedOn(recreateCtx, ok, Exists(c.ID))
            /\ IF ok
               THEN /\ fr' = [NoFrame EXCEPT !.fn = "RecreateSelf", !.step = "rename",
                                             !.id = c.ID, !.image = c.Image,
                                             !.inspect = InspectOf(c.ID),
                                             !.plan = BuildPlan(InspectOf(c.ID), c.Image)]
                    /\ UNCHANGED <<pc, rc>>
               ELSE /\ fr' = NoFrame
                    /\ pc' = "returned"
                    /\ rc' = SelfReturned
    /\ UNCHANGED <<u, revision, containers, created, planIn, planOut, probes, listed, ctx, refs, host, cfg, original>>

\* rename self to the temporary name
SelfRename ==
    /\ pc = "selfNew"
    /\ fr.fn = "RecreateSelf"
    /\ fr.step = "rename"
    /\ LET tempName == ContainerName(fr.inspect.Name) \o Str_old
           possible == Exists(fr.id) /\ ~NameInUse(<<"/">> \o tempName)
       IN  \E ok \in OutcomesOn(recreateCtx, possible) :
            /\ calls' = calls \o ThenReturn(Call("RecreateSelf", fr.id, "ContainerRename", fr.id,
                                               ok, [name |-> tempName]), ~ok, <<>>, TRUE)
            /\ failures' = failures + FailedOn(recreateCtx, ok, possible)
            /\ IF ok
               THEN /\ containers' = [containers EXCEPT ![fr.id].Name = <<"/">> \o tempName]
                    /\ fr' = [fr EXCEPT !.step = "create"]
                    /\ UNCHANGED <<pc, rc>>
               ELSE /\ containers' = containers
                    /\ fr' = NoFrame
                    /\ pc' = "returned"
                    /\ rc' = SelfReturned
    /\ UNCHANGED <<u, revision, created, planIn, planOut, probes, listed, ctx, refs, host, cfg, original>>

\* SelfCreate returning the error of a failed create at once
SelfCreate_noRevert ==
    /\ pc = "selfNew"
    /\ fr.fn = "RecreateSelf"
    /\ fr.step = "create"
    /\ LET name == ContainerName(fr.inspect.Name)
       IN  \E first \in FirstNetworks(fr.inspect.Networks), ok \in OutcomesOn(recreateCtx, CanCreate(name)) :
            LET newID == IF ok THEN NewID(created + 1) ELSE <<>>
            IN  /\ calls' = calls \o ThenReturn(Call("RecreateSelf", fr.id, "ContainerCreate",
                                                   newID, ok, CreateArg(name, fr.plan, first)),
                                              ~ok, <<>>, TRUE)
                /\ failures' = failures + FailedOn(recreateCtx, ok, CanCreate(name))
                /\ IF ok
                   THEN /\ containers' = [containers EXCEPT
                                            ![newID] = CreatedContainer(name, fr.plan, first)]
                        /\ created' = created + 1
                        /\ fr' = [fr EXCEPT !.newID = newID,
                                            !.pending = fr.inspect.Networks \ first,
                                            !.step = IF fr.inspect.Networks \ first = {}
                                                     THEN "start" ELSE "connect"]
                        /\ UNCHANGED <<pc, rc>>
                   ELSE /\ UNCHANGED <<containers, created>>
                        /\ fr' = NoFrame
                        /\ pc' = "returned"
                        /\ rc' = SelfReturned
    /\ UNCHANGED <<u, revision, planIn, planOut, probes, listed, ctx, refs, host, cfg, original>>

\* create the replacement under the original name
SelfCreate ==
    /\ pc = "selfNew"
    /\ fr.fn = "RecreateSelf"
    /\ fr.step = "create"
    /\ LET name == ContainerName(fr.inspect.Name)
       IN  \E first \in FirstNetworks(fr.inspect.Networks), ok \in OutcomesOn(recreateCtx, CanCreate(name)) :
            LET newID == IF ok THEN NewID(created + 1) ELSE <<>>
            IN  /\ calls' = Append(calls, Call("RecreateSelf", fr.id, "ContainerCreate", newID, ok,
                                               CreateArg(name, fr.plan, first)))
                /\ failures' = failures + FailedOn(recreateCtx, ok, CanCreate(name))
                /\ IF ok
                   THEN /\ containers' = [containers EXCEPT
                                            ![newID] = CreatedContainer(name, fr.plan, first)]
                        /\ created' = created + 1
                        /\ fr' = [fr EXCEPT !.newID = newID,
                                            !.pending = fr.inspect.Networks \ first,
                                            !.step = IF fr.inspect.Networks \ first = {}
                                                     THEN "start" ELSE "connect"]
                   ELSE /\ UNCHANGED <<containers, created>>
                        /\ fr' = [fr EXCEPT !.step = "revert"]
    /\ UNCHANGED <<u, revision, pc, rc, planIn, planOut, probes, listed, ctx, refs, host, cfg, original>>

\* the create failed: try to restore the original name, then return the error
SelfRevert ==
    /\ pc = "selfNew"
    /\ fr.fn = "RecreateSelf"
    /\ fr.step = "revert"
    /\ LET name == ContainerName(fr.inspect.Name)
           possible == Exists(fr.id) /\ ~NameInUse(<<"/">> \o name)
       IN  \E ok \in OutcomesOn(recreateCtx, possible) :
            /\ calls' = calls \o ThenReturn(Call("RecreateSelf", fr.id, "ContainerRename", fr.id,
                                               ok, [name |-> name]), TRUE, <<>>, TRUE)
            /\ failures' = failures + FailedOn(recreateCtx, ok, possible)
            /\ containers' = IF ok THEN [containers EXCEPT ![fr.id].Name = <<"/">> \o name]
                             ELSE containers
    /\ fr' = NoFrame
    /\ pc' = "returned"
    /\ rc' = SelfReturned
    /\ UNCHANGED <<u, revision, created, planIn, planOut, probes, listed, ctx, refs, host, cfg, original>>

SelfConnect ==
    /\ pc = "selfNew"
    /\ fr.fn = "RecreateSelf"
    /\ fr.step = "connect"
    /\ \E n \in fr.pending, ok \in OutcomesOn(recreateCtx, Exists(fr.newID)) :
        /\ calls' = Append(calls, Call("RecreateSelf", fr.id, "NetworkConnect", fr.newID, ok,
                                       [network |-> n]))
        /\ failures' = failures + FailedOn(recreateCtx, ok, Exists(fr.newID))
        /\ containers' = IF ok THEN [containers EXCEPT ![fr.newID].Networks = @ \cup {n}]
                         ELSE containers
        /\ fr' = [fr EXCEPT !.pending = @ \ {n},
                            !.step = IF fr.pending \ {n} = {} THEN "start" ELSE "connect"]
    /\ UNCHANGED <<u, revision, created, pc, rc, planIn, planOut, probes, listed, ctx, refs, host, cfg, original>>

\* SelfStart going on to the removal whatever the start returned
SelfStart_ignoresFailure ==
    /\ pc = "selfNew"
    /\ fr.fn = "RecreateSelf"
    /\ fr.step = "start"
    /\ \E ok \in OutcomesOn(recreateCtx, containers[fr.newID].State = "created") :
        /\ calls' = Append(calls, Call("RecreateSelf", fr.id, "ContainerStart", fr.newID, ok,
                                       NoArg))
        /\ failures' = failures + FailedOn(recreateCtx, ok, containers[fr.newID].State = "created")
        /\ containers' = IF ok THEN [containers EXCEPT ![fr.newID].State = "running"]
                         ELSE containers
        /\ fr' = [fr EXCEPT !.step = "remove"]
    /\ UNCHANGED <<u, revision, created, pc, rc, planIn, planOut, probes, listed, ctx, refs, host, cfg, original>>

\* start the replacement; a failure is returned as it is
SelfStart ==
    /\ pc = "selfNew"
    /\ fr.fn = "RecreateSelf"
    /\ fr.step = "start"
    /\ \E ok \in OutcomesOn(recreateCtx, containers[fr.newID].State = "created") :
        /\ calls' = calls \o ThenReturn(Call("RecreateSelf", fr.id, "ContainerStart", fr.newID,
                                           ok, NoArg), ~ok, <<>>, TRUE)
        /\ failures' = failures + FailedOn(recreateCtx, ok, containers[fr.newID].State = "created")
        /\ containers' = IF ok THEN [containers EXCEPT ![fr.newID].State = "running"]
                         ELSE containers
        /\ IF ok
           THEN fr' = [fr EXCEPT !.step = "remove"] /\ UNCHANGED <<pc, rc>>
           ELSE fr' = NoFrame /\ pc' = "returned" /\ rc' = SelfReturned
    /\ UNCHANGED <<u, revision, created, planIn, planOut, probes, listed, ctx, refs, host, cfg, original>>

\* force-remove self: the updater process ends with its container; when the
\* remove fails its error is dropped and RecreateSelf returns the new id
SelfRemove ==
    /\ pc = "selfNew"
    /\ fr.fn = "RecreateSelf"
    /\ fr.step = "remove"
    /\ \E ok \in OutcomesOn(recreateCtx, Exists(fr.id)) :
        /\ calls' = calls \o ThenReturn(Call("RecreateSelf", fr.id, "ContainerRemove", fr.id, ok,
                                           NoArg), ~(ok /\ fr.id = ProcessID), fr.newID, FALSE)
                         \o (IF ok /\ fr.id = ProcessID THEN <<>> ELSE <<StillRunningWarning(fr.id)>>)
        /\ failures' = failures + FailedOn(recreateCtx, ok, Exists(fr.id))
        /\ containers' = IF ok THEN [containers EXCEPT ![fr.id] = Absent] ELSE containers
        /\ IF ok /\ fr.id = ProcessID
           THEN pc' = "dead" /\ fr' = fr /\ rc' = rc
           ELSE pc' = "returned" /\ fr' = NoFrame /\ rc' = SelfReturned
    /\ UNCHANGED <<u, revision, created, planIn, planOut, probes, listed, ctx, refs, host, cfg, original>>

(**************************************************************************)
(* Specification of one update cycle                                      *)
(**************************************************************************)

Next ==
    \/ ListAndFilter
    \/ CheckCandidate
    \/ EndChecks
    \/ RecreateInspect
    \/ RecreateStop
    \/ RecreateRemove
    \/ RecreateCreate
    \/ RecreateConnect
    \/ RecreateStart
    \/ CleanupImage
    \/ EndUpdates
    \/ TrySelfUpdate
    \/ SelfInspect
    \/ SelfRename
    \/ SelfCreate
    \/ SelfRevert
    \/ SelfConnect
    \/ SelfStart
    \/ SelfRemove

Spec == Init /\ [][Next]_vars

(**************************************************************************)
(* Specification of the cycle under shutdown: main cancels the cycle's     *)
(* context when a signal arrives                                           *)
(**************************************************************************)

\* signals that may arrive during a cycle
MaxSignals == 1

\* main's context: context.WithCancel(context.Background()), with the signals
\* yet to arrive
InitCancel == Start([cancelled |-> FALSE, signals |-> MaxSignals])

\* main's signal goroutine: a signal arrives while RunCycle runs and cancel()
\* is called
Cancel ==
    /\ ctx.signals > 0
    /\ pc \notin {"returned", "dead", "panicked"}
    /\ ctx' = [cancelled |-> TRUE, signals |-> ctx.signals - 1]
    /\ calls' = Append(calls, Call("main", <<>>, "cancel", <<>>, TRUE, NoArg))
    /\ UNCHANGED <<u, revision, containers, created, failures, pc, rc, fr,
                   planIn, planOut, probes, listed, refs, host, cfg, original>>

NextCancel ==
    \/ Next
    \/ Cancel

SpecCancel == InitCancel /\ [][NextCancel]_vars

(**************************************************************************)
(* Specification of the plan: the duplicate resolution on the configurations *)
(* an inspect may return                                                   *)
(**************************************************************************)

\* longest bind list and longest mount list of an inspected configuration
MaxBinds == 2

MaxMounts == 2

\* mount points an inspected container reports
MaxMountPoints == 2

\* sequences over S of length at most n
SeqsUpTo(S, n) == UNION {[1..k -> S] : k \in 0..n}

\* binds in the forms the engine accepts: "source:dest", "source:dest:opts",
\* and a container path alone
PlanBinds ==
    {<<"s", ":">> \o Path_a, <<"s", ":">> \o Path_b \o <<":", "r", "o">>, Path_a}

PlanMounts == {Mount("volume", <<"v">>, Path_a, FALSE), Mount("bind", <<"s">>, Path_b, TRUE)}

PlanMountPoints ==
    {MountPoint("volume", <<"v">>, Path_a, TRUE), MountPoint("bind", <<"s">>, Path_b, FALSE)}

PlanVolumes == {NilVolumes} \cup {Volumes(S) : S \in SUBSET {Path_a, Path_b}}

PlanInspects ==
    {[Name |-> <<"/", "b">>,
      Config |-> [Image |-> <<"n">>, Labels |-> {}, Volumes |-> v],
      HostConfig |-> [Binds |-> b, Mounts |-> m],
      Mounts |-> mp,
      Networks |-> {}] :
        v \in PlanVolumes, b \in SeqsUpTo(PlanBinds, MaxBinds),
        m \in SeqsUpTo(PlanMounts, MaxMounts), mp \in SeqsUpTo(PlanMountPoints, MaxMountPoints)}

InitPlan ==
    /\ u = [selfID |-> <<>>, SelfUpdate |-> FALSE, Cleanup |-> FALSE, WatchAll |-> FALSE]
    /\ revision = "part_005"
    /\ containers = InitContainers(FALSE)
    /\ created = 0
    /\ calls = <<>>
    /\ failures = 0
    /\ pc = "plan"
    /\ rc = [candidates |-> <<>>, self |-> <<>>, toUpdate |-> <<>>,
             oldImageIDs |-> {}, i |-> 1, updated |-> 0, ret |-> NoArg]
    /\ fr = NoFrame
    /\ \E inspect \in PlanInspects : planIn = [inspect |-> inspect, image |-> <<"n", ":", "2">>]
    /\ planOut = NoArg
    /\ probes = <<>>
    /\ listed = <<>>
    /\ ctx = Background
    /\ refs = <<>>
    /\ host = NoHost
    /\ cfg = NoArg
    /\ original = NoArg

\* the preparation of the creation inputs in Recreate and RecreateSelf
PreparePlan ==
    /\ pc = "plan"
    /\ planOut' = BuildPlan(planIn.inspect, planIn.image)
    /\ pc' = "planned"
    /\ UNCHANGED <<u, revision, containers, created, calls, failures, rc, fr, planIn, probes, listed, ctx, refs, host, cfg, original>>

\* deduplicateMounts and deduplicateVolumes applied to the prepared plan again
DeduplicateAgain ==
    /\ pc = "planned"
    /\ planOut' = [config     |-> deduplicateVolumes(planOut.config,
                                                    deduplicateMounts(planOut.hostConfig)),
                   hostConfig |-> deduplicateMounts(planOut.hostConfig)]
    /\ pc' = "replanned"
    /\ UNCHANGED <<u, revision, containers, created, calls, failures, rc, fr, planIn, probes, listed, ctx, refs, host, cfg, original>>

NextPlan ==
    \/ PreparePlan
    \/ DeduplicateAgain

SpecPlan == InitPlan /\ [][NextPlan]_vars

(**************************************************************************)
(* Specification of the digest probe: CheckDigest called on the replies a  *)
(* registry and its token endpoint may give                                *)
(**************************************************************************)

\* number of CheckDigest calls made in a row
MaxProbes == 2

ProbeImage == <<"h", ".", "x", "/", "r", ":", "t">>

\* a challenge without realm, and one with service and scope in lower case
ChallengeNoRealm == Str_Bearer \o Str_service \o <<"=", "\"", "s", "\"">>

ChallengeFull ==
    Str_bearer \o Str_realm \o <<"=", "\"", "h", "\"", ",">>
        \o Str_service \o <<"=", "s", ",">> \o Str_scope \o <<"=", "\"", "p", "\"">>

TokenReply(status, decodeErr, token, access_token) ==
    [doErr |-> FALSE, status |-> status, decodeErr |-> decodeErr,
     token |-> token, access_token |-> access_token]

\* token replies exchangeToken rejects
FailingTokens ==
    {NoToken, TokenReply(403, FALSE, <<"T">>, <<>>), TokenReply(200, TRUE, <<>>, <<>>),
     TokenReply(200, FALSE, <<>>, <<>>)}

\* token replies that carry a token
GoodTokens ==
    {TokenReply(200, FALSE, <<"T">>, <<"A">>), TokenReply(200, FALSE, <<>>, <<"A">>),
     TokenReply(200, FALSE, <<"U">>, <<>>)}

\* replies to the authenticated retry
SecondReplies ==
    {Reply(200, DigB, <<>>), Reply(200, <<>>, <<>>), Reply(401, <<>>, Challenge),
     Reply(500, <<>>, <<>>), NoReply}

\* the replies of one CheckDigest call; a request that is not reached by any
\* reading of the replies before it is given no reply
ProbeReplies ==
    {[first |-> f, token |-> NoToken, second |-> NoReply] :
        f \in {Reply(200, DigA, <<>>), Reply(200, <<>>, <<>>), Reply(401, <<>>, <<>>),
               Reply(401, <<>>, ChallengeNoRealm), Reply(500, <<>>, <<>>), NoReply}}
    \cup {[first |-> Reply(401, <<>>, Challenge), token |-> t, second |-> s] :
            t \in FailingTokens, s \in {NoReply, Reply(200, DigB, <<>>)}}
    \cup {[first |-> Reply(401, <<>>, c), token |-> t, second |-> s] :
            c \in {Challenge, ChallengeFull}, t \in GoodTokens, s \in SecondReplies}

InitProbe ==
    /\ u = [selfID |-> <<>>, SelfUpdate |-> FALSE, Cleanup |-> FALSE, WatchAll |-> FALSE]
    /\ revision = "part_005"
    /\ containers = InitContainers(FALSE)
    /\ created = 0
    /\ calls = <<>>
    /\ failures = 0
    /\ pc = "probe"
    /\ rc = [candidates |-> <<>>, self |-> <<>>, toUpdate |-> <<>>,
             oldImageIDs |-> {}, i |-> 1, updated |-> 0, ret |-> NoArg]
    /\ fr = NoFrame
    /\ planIn = NoPlan
    /\ planOut = NoArg
    /\ probes = <<>>
    /\ listed = <<>>
    /\ ctx = Background
    /\ refs = <<>>
    /\ host = NoHost
    /\ cfg = NoArg
    /\ original = NoArg

\* one call of registry.CheckDigest
Probe ==
    /\ pc = "probe"
    /\ Len(probes) < MaxProbes
    /\ \E r \in ProbeReplies :
        probes' = Append(probes, [image |-> ProbeImage, r |-> r,
                                  out |-> CheckDigest(ProbeImage, r)])
    /\ UNCHANGED <<u, revision, containers, created, calls, failures, pc, rc, fr,
                   planIn, planOut, listed, ctx, refs, host, cfg, original>>

NextProbe == Probe

SpecProbe == InitProbe /\ [][NextProbe]_vars

(**************************************************************************)
(* Specification of the filter: RunCycle's separation of a listing into    *)
(* self and candidates                                                     *)
(**************************************************************************)

\* longest listing given to the filter
MaxListed == 2

\* a listed container
ListedInfo(id, image, labels) ==
    [ID |-> id, Name |-> <<"c">>, Image |-> image, ImageID |-> ImgOld,
     Labels |-> labels, State |-> "running", RepoDigests |-> <<>>]

EnableLabel(val) == {<<"isengard.enable", val>>}

\* label sets: none, an unrelated label, and isengard.enable in several
\* spellings and with other values
ListedLabels ==
    {{}, {<<"app", <<"x">>>>}}
    \cup {EnableLabel(val) :
            val \in {Str_false, <<"F", "a", "l", "s", "e">>, <<"F", "A", "L", "S", "E">>,
                     Str_true, <<"T", "R", "U", "E">>, <<"y", "e", "s">>, <<>>}}

\* image references as a listing gives them: with a tag, a repository pinned
\* by digest, a bare image id, none
TaggedImage == <<"n", ":", "1">>

PinnedImage == <<"n", "@">> \o DigA

\* the containers a listing may hold: another container with a tagged image
\* under every label set; another container with an image that has no tag;
\* the updater's own container
ListedInfos ==
    {ListedInfo(OtherID(1), TaggedImage, l) : l \in ListedLabels}
    \cup {ListedInfo(OtherID(1), i, l) :
            i \in {PinnedImage, ImgOld, <<>>},
            l \in {{}, EnableLabel(Str_true), EnableLabel(Str_false)}}
    \cup {ListedInfo(OwnID, i, l) :
            i \in {TaggedImage, ImgOld},
            l \in {{}, EnableLabel(Str_true), EnableLabel(Str_false)}}

InitFilter ==
    /\ u \in [selfID : {<<>>, Prefix(OwnID, ShortIDLen), OwnID},
              SelfUpdate : BOOLEAN, Cleanup : {FALSE}, WatchAll : BOOLEAN]
    /\ revision = "part_005"
    /\ containers = InitContainers(FALSE)
    /\ created = 0
    /\ calls = <<>>
    /\ failures = 0
    /\ pc = "filter"
    /\ rc = [candidates |-> <<>>, self |-> <<>>, toUpdate |-> <<>>,
             oldImageIDs |-> {}, i |-> 1, updated |-> 0, ret |-> NoArg]
    /\ fr = NoFrame
    /\ planIn = NoPlan
    /\ planOut = NoArg
    /\ probes = <<>>
    /\ listed = <<>>
    /\ ctx = Background
    /\ refs = <<>>
    /\ host = NoHost
    /\ cfg = NoArg
    /\ original = NoArg

\* RunCycle's filter loop over a listing
Filter ==
    /\ pc = "filter"
    /\ \E infos \in SeqsUpTo(ListedInfos, MaxListed) :
        /\ listed' = infos
        /\ rc' = [rc EXCEPT !.candidates = Candidates(u, infos),
                            !.self = SelfContainer(u, infos)]
    /\ pc' = "filtered"
    /\ UNCHANGED <<u, revision, containers, created, calls, failures, fr,
                   planIn, planOut, probes, ctx, refs, host, cfg, original>>

NextFilter == Filter

SpecFilter == InitFilter /\ [][NextFilter]_vars

(**************************************************************************)
(* Specification of the references: ParseImageRef on the references a     *)
(* container may be listed with, extractLocalDigest on the digests the    *)
(* engine may have recorded                                               *)
(**************************************************************************)

\* number of references handled in a run
MaxRefs == 1

\* longest RepoDigests list of a listed container
MaxRepoDigests == 2

\* a reference written from its parts: path, optional tag, optional digest
WholeRef(path, tag, digest) ==
    path \o (IF tag = <<>> THEN <<>> ELSE <<":">> \o tag)
         \o (IF digest = <<>> THEN <<>> ELSE <<"@">> \o digest)

\* paths without a slash: plain names, one with a dot, "localhost"
RefNames == {<<"n">>, <<"h", ".", "x">>, Str_localhost}

\* paths whose registry host carries a port
PortPaths ==
    {<<"h", ":", "5", "/", "n">>, <<"h", ".", "x", ":", "5", "/", "u", "/", "i">>,
     Str_localhost \o <<":", "5", "/", "n">>}

\* paths with a slash: a user repository, registries recognised by a dot, a
\* port or the name localhost, the Docker Hub aliases, a library path
RefPaths ==
    RefNames
    \cup {<<"u", "/", "i">>, <<"h", ".", "x", "/", "r">>, <<"h", ":", "5", "/", "n">>,
          Str_localhost \o <<"/", "n">>, Str_dockerio \o <<"/", "n">>,
          Str_indexdockerio \o <<"/", "u", "/", "i">>, Str_library \o <<"n">>}
    \cup PortPaths

RefTags == {<<>>, <<"1">>}

RefDigests == {<<>>, DigA}

\* the images of the containers whose local digest is extracted
DigestImages == {<<"n", ":", "1">>, <<"u", "/", "i">>, <<"h", ".", "x", "/", "r", ":", "t">>}

\* repository names the engine may record in RepoDigests
RepoNames ==
    {<<"n">>, Str_library \o <<"n">>, Str_dockerio \o <<"/">> \o Str_library \o <<"n">>,
     Str_registry1 \o <<"/">> \o Str_library \o <<"n">>,
     <<"u", "/", "i">>, Str_dockerio \o <<"/", "u", "/", "i">>,
     <<"h", ".", "x", "/", "r">>, <<"r">>, <<"x">>}

\* the digest recorded with the entry at each position of RepoDigests
PositionDigest(k) == Str_sha256 \o Rep("d", ShortIDLen + k)

\* RepoDigests as the engine records them: "name@digest"
RepoDigestsOf(names) == [k \in 1..Len(names) |-> names[k] \o <<"@">> \o PositionDigest(k)]

\* the registry answering the probe with a digest at once
DigestReply == [first |-> Reply(200, DigA, <<>>), token |-> NoToken, second |-> NoReply]

InitRefs ==
    /\ u = [selfID |-> <<>>, SelfUpdate |-> FALSE, Cleanup |-> FALSE, WatchAll |-> TRUE]
    /\ revision = "part_005"
    /\ containers = InitContainers(FALSE)
    /\ created = 0
    /\ calls = <<>>
    /\ failures = 0
    /\ pc = "refs"
    /\ rc = [candidates |-> <<>>, self |-> <<>>, toUpdate |-> <<>>,
             oldImageIDs |-> {}, i |-> 1, updated |-> 0, ret |-> NoArg]
    /\ fr = NoFrame
    /\ planIn = NoPlan
    /\ planOut = NoArg
    /\ probes = <<>>
    /\ listed = <<>>
    /\ ctx = Background
    /\ refs = <<>>
    /\ host = NoHost
    /\ cfg = NoArg
    /\ original = NoArg

\* ParseImageRef on a reference
ParseRef ==
    /\ pc = "refs"
    /\ Len(refs) < MaxRefs
    /\ \E path \in RefPaths, tag \in RefTags, digest \in RefDigests :
        refs' = Append(refs, [op |-> "ParseImageRef", path |-> path, tag |-> tag,
                              digest |-> digest,
                              ref |-> ParseImageRef(WholeRef(path, tag, digest))])
    /\ UNCHANGED <<u, revision, containers, created, calls, failures, pc, rc, fr,
                   planIn, planOut, probes, listed, ctx, host, cfg, original>>

\* checkForUpdate on a listed container: the local digest it extracts and the
\* calls it makes when the registry reports DigA
ExtractDigest ==
    /\ pc = "refs"
    /\ Len(refs) < MaxRefs
    /\ \E image \in DigestImages, names \in SeqsUpTo(RepoNames, MaxRepoDigests),
          pull \in PullResults :
        LET c == [ListedInfo(OtherID(1), image, {}) EXCEPT
                    !.RepoDigests = RepoDigestsOf(names)]
        IN  refs' = Append(refs, [op |-> "extractLocalDigest", image |-> image,
                                  names |-> names, ref |-> ParseImageRef(image),
                                  digest |-> extractLocalDigest(c),
                                  check |-> checkForUpdate(c, DigestReply, pull).calls])
    /\ UNCHANGED <<u, revision, containers, created, calls, failures, pc, rc, fr,
                   planIn, planOut, probes, listed, ctx, host, cfg, original>>

NextRefs ==
    \/ ParseRef
    \/ ExtractDigest

SpecRefs == InitRefs /\ [][NextRefs]_vars

(**************************************************************************)
(* Specification of the self detection: New on the hostnames, cgroup path *)
(* files and mount descriptions a process may find                        *)
(**************************************************************************)

\* longest mount description, in lines
MaxMountLines == 2

\* container ids as the cgroup path file and the mount description show them
CpusetID == Rep("c", FullIDLen)

MountID == Rep("b", FullIDLen)

OtherMountID == Rep("d", FullIDLen)

\* hostnames, each with whether it is a short container id: the engine's
\* default, names of HostnameLen characters with a hyphen or an uppercase
\* letter, hexadecimal names of other lengths, a service name
HostnameTable ==
    {[name |-> Rep("a", 6) \o Rep("1", 6), shortID |-> TRUE],
     [name |-> <<"m", "y", "-", "c", "o", "n", "t", "a", "i", "n", "e", "r">>, shortID |-> FALSE],
     [name |-> <<"A">> \o Rep("b", 5) \o Rep("1", 6), shortID |-> FALSE],
     [name |-> Rep("a", 5) \o Rep("1", 6), shortID |-> FALSE],
     [name |-> Rep("a", 7) \o Rep("1", 6), shortID |-> FALSE],
     [name |-> <<"i", "s", "e", "n", "g", "a", "r", "d">>, shortID |-> FALSE]}

Hostnames ==
    {[err |-> TRUE, name |-> <<>>]}
    \cup {[err |-> FALSE, name |-> t.name] : t \in HostnameTable}

\* contents of /proc/1/cpuset, each with the id it names: the root path of
\* cgroup v2, the engine's path of cgroup v1, another runtime's path
CpusetTable ==
    {[data |-> <<"/", "\n">>, id |-> <<>>],
     [data |-> Str_docker \o CpusetID \o <<"\n">>, id |-> CpusetID],
     [data |-> <<"/", "k", "u", "b", "e", "/", "x", "\n">>, id |-> <<>>]}

Cpusets ==
    {[err |-> TRUE, data |-> <<>>]}
    \cup {[err |-> FALSE, data |-> t.data] : t \in CpusetTable}

\* lines of /proc/self/mountinfo, each with the id it names: the engine's
\* per-container files, another runtime's path, a truncated id, a plain mount
MountLineTable ==
    {[text |-> <<"/", "v">> \o Str_dockercontainers \o MountID \o <<"/", "h">>,
      id |-> MountID],
     [text |-> Str_dockercontainers \o OtherMountID \o <<"/", "r">>,
      id |-> OtherMountID],
     [text |-> <<"/", "s", "/", "c", "o", "n", "t", "a", "i", "n", "e", "r", "s", "/">>
               \o MountID \o <<"/", "h">>,
      id |-> <<>>],
     [text |-> Str_dockercontainers \o Rep("b", FullIDLen - 1) \o <<"/", "h">>,
      id |-> <<>>],
     [text |-> <<"/", " ", "/", " ", "r", "w">>, id |-> <<>>]}

Mountinfos ==
    {[err |-> TRUE, lines |-> <<>>]}
    \cup {[err |-> FALSE, lines |-> l] :
            l \in SeqsUpTo({t.text : t \in MountLineTable}, MaxMountLines)}

InitSelf ==
    /\ u = [selfID |-> <<>>, SelfUpdate |-> FALSE, Cleanup |-> FALSE, WatchAll |-> TRUE]
    /\ revision = "part_005"
    /\ containers = InitContainers(FALSE)
    /\ created = 0
    /\ calls = <<>>
    /\ failures = 0
    /\ pc = "New"
    /\ rc = [candidates |-> <<>>, self |-> <<>>, toUpdate |-> <<>>,
             oldImageIDs |-> {}, i |-> 1, updated |-> 0, ret |-> NoArg]
    /\ fr = NoFrame
    /\ planIn = NoPlan
    /\ planOut = NoArg
    /\ probes = <<>>
    /\ listed = <<>>
    /\ ctx = Background
    /\ refs = <<>>
    /\ host \in [hostname : Hostnames, cpuset : Cpusets, mountinfo : Mountinfos]
    /\ cfg = NoArg
    /\ original = NoArg

\* New: the updater is built with the id detectSelfID finds
New ==
    /\ pc = "New"
    /\ u' = [u EXCEPT !.selfID = detectSelfID(host)]
    /\ pc' = "constructed"
    /\ UNCHANGED <<revision, containers, created, calls, failures, rc, fr,
                   planIn, planOut, probes, listed, ctx, refs, host, cfg, original>>

NextSelf == New

SpecSelf == InitSelf /\ [][NextSelf]_vars

(**************************************************************************)
(* Specification of the configuration: Load on the values the ISENGARD_*  *)
(* variables may hold                                                     *)
(**************************************************************************)

\* values of ISENGARD_INTERVAL: unset, durations, a negative one, zero,
\* a number without unit, a word
IntervalValues ==
    {<<>>, <<"5", "m">>, <<"9", "0", "s">>, <<"1", "h">>, <<"-", "1", "s">>, <<"0", "s">>,
     <<"3", "0">>, <<"a", "b", "c">>}

\* values of the boolean variables: unset, spellings ParseBool accepts, others
BoolValues == {<<>>, Str_true, Str_false, <<"1">>, <<"0">>, <<"y", "e", "s">>, <<"o", "n">>}

\* values of ISENGARD_STOP_TIMEOUT: unset, numbers, zero, a negative one, others
StopTimeoutValues ==
    {<<>>, <<"1", "0">>, <<"0">>, <<"-", "5">>, <<"3", ".", "5">>, <<"a", "b", "c">>}

\* values of ISENGARD_LOG_LEVEL: unset, the four levels, others
LogLevelValues ==
    {<<>>, Str_debug, Str_info, Str_warn, Str_error,
     <<"D", "E", "B", "U", "G">>, <<"l", "o", "u", "d">>}

Environments ==
    [INTERVAL : IntervalValues, RUN_ONCE : {<<>>, Str_true, <<"y", "e", "s">>},
     CLEANUP : BoolValues, WATCH_ALL : BoolValues,
     STOP_TIMEOUT : StopTimeoutValues, LOG_LEVEL : LogLevelValues]

InitLoad ==
    /\ u = [selfID |-> <<>>, SelfUpdate |-> FALSE, Cleanup |-> FALSE, WatchAll |-> TRUE]
    /\ revision = "part_005"
    /\ containers = InitContainers(FALSE)
    /\ created = 0
    /\ calls = <<>>
    /\ failures = 0
    /\ pc = "Load"
    /\ rc = [candidates |-> <<>>, self |-> <<>>, toUpdate |-> <<>>,
             oldImageIDs |-> {}, i |-> 1, updated |-> 0, ret |-> NoArg]
    /\ fr = NoFrame
    /\ planIn = NoPlan
    /\ planOut = NoArg
    /\ probes = <<>>
    /\ listed = <<>>
    /\ ctx = Background
    /\ refs = <<>>
    /\ host = NoHost
    /\ \E e \in Environments : cfg = [env |-> e, c |-> NoArg]
    /\ original = NoArg

\* main calls config.Load
LoadConfig ==
    /\ pc = "Load"
    /\ cfg' = [cfg EXCEPT !.c = Load(cfg.env)]
    /\ pc' = "loaded"
    /\ UNCHANGED <<u, revision, containers, created, calls, failures, rc, fr,
                   planIn, planOut, probes, listed, ctx, refs, host, original>>

NextLoad == LoadConfig

SpecLoad == InitLoad /\ [][NextLoad]_vars

(**************************************************************************)
(* Specification of the handover of a self-update: the replacement that   *)
(* RecreateSelf started runs its first cycle while the original instance  *)
(* has its force-remove of itself still to make                           *)
(**************************************************************************)

\* the original instance's container after RecreateSelf renamed it.  The
\* engine lists a container under its image id once its reference resolves to
\* another image, which is so when the pull of the self-update brought a new
\* image (moved)
RenamedOriginal(moved) == [OwnContainer(moved) EXCEPT !.Name = @ \o Str_old]

\* the replacement RecreateSelf created under the original name and started
Replacement(moved) ==
    LET own == OwnContainer(FALSE)
        inspect == [Name |-> own.Name, Config |-> own.Config, HostConfig |-> own.HostConfig,
                    Mounts |-> own.Mounts, Networks |-> own.Networks]
        plan == BuildPlan(inspect, own.Config.Image)
    IN  [CreatedContainer(ContainerName(own.Name), plan, own.Networks) EXCEPT
            !.State = "running",
            !.ImageID = IF moved THEN ImgNew ELSE ImgOld,
            !.RepoDigests = IF moved THEN << <<"u", "/", "i", "@">> \o DigB >>
                            ELSE own.RepoDigests,
            !.Mounts = own.Mounts]

HandoverContainers(moved) ==
    [InitContainers(FALSE) EXCEPT ![OwnID] = RenamedOriginal(moved),
                                  ![NewID(1)] = Replacement(moved)]

InitHandover ==
    /\ u \in [selfID : {Prefix(NewID(1), ShortIDLen)},
              SelfUpdate : {TRUE}, Cleanup : {TRUE}, WatchAll : BOOLEAN]
    /\ revision = "part_005"
    /\ \E moved \in BOOLEAN : containers = HandoverContainers(moved)
    /\ created = 1
    /\ calls = <<>>
    /\ failures = 0
    /\ pc = "RunCycle"
    /\ rc = [candidates |-> <<>>, self |-> <<>>, toUpdate |-> <<>>,
             oldImageIDs |-> {}, i |-> 1, updated |-> 0, ret |-> NoArg]
    /\ fr = NoFrame
    /\ planIn = NoPlan
    /\ planOut = NoArg
    /\ probes = <<>>
    /\ listed = <<>>
    /\ ctx = Background
    /\ refs = <<>>
    /\ host = NoHost
    /\ cfg = NoArg
    /\ original = [id |-> OwnID, newID |-> NewID(1), step |-> "remove"]

\* the original instance, alive as long as its container runs, force-removes
\* its container and ends with it; when the remove fails its RecreateSelf
\* returns
OriginalRemove ==
    /\ original # NoArg
    /\ original.step = "remove"
    /\ containers[original.id].State = "running"
    /\ \E ok \in OutcomesOn(recreateCtx, Exists(original.id)) :
        /\ calls' = calls \o ThenReturn(Call("RecreateSelf", original.id, "ContainerRemove",
                                             original.id, ok, NoArg),
                                        ~ok, original.newID, FALSE)
                          \o (IF ok THEN <<>> ELSE <<StillRunningWarning(original.id)>>)
        /\ failures' = failures + FailedOn(recreateCtx, ok, Exists(original.id))
        /\ containers' = IF ok THEN [containers EXCEPT ![original.id] = Absent] ELSE containers
        /\ original' = [original EXCEPT !.step = IF ok THEN "dead" ELSE "returned"]
    /\ UNCHANGED <<u, revision, created, pc, rc, fr, planIn, planOut, probes, listed,
                   ctx, refs, host, cfg>>

NextHandover == Next \/ OriginalRemove

SpecHandover == InitHandover /\ [][NextHandover]_vars

(**************************************************************************)
(* Properties                                                             *)
(**************************************************************************)

IsPrefix(s, t) == Len(s) <= Len(t) /\ s = SubSeq(t, 1, Len(s))

\* the engine calls function `by` issued while working on container `for`, in
\* order, the connections of additional networks left out
Steps(by, for) ==
    SelectSeq(calls, LAMBDA r : r.by = by /\ r.for = for
                                 /\ r.op \notin {"NetworkConnect", "return"})

Ops(S) == [i \in 1..Len(S) |-> S[i].op]

\* the containers as they were when the cycle began
OriginalContainers == InitContainers(FALSE)

Original(id) == OriginalContainers[id]

OriginalName(id) == ContainerName(Original(id).Name)

\* the container paths a host configuration mounts, as the code reads them
MountTargets(hostConfig) ==
    BindTargets(hostConfig.Binds)
        \cup {hostConfig.Mounts[i].Target : i \in 1..Len(hostConfig.Mounts)}

\* the mounts the inspect of a container reports
InspectedMounts(id) ==
    IF Len(Original(id).HostConfig.Mounts) > 0
    THEN Original(id).HostConfig.Mounts
    ELSE convertMounts(Original(id).Mounts)

SelfOrder ==
    <<"ContainerInspect", "ContainerRename", "ContainerCreate", "ContainerStart",
      "ContainerRemove">>

\* C1: RecreateSelf issues inspect, rename(self to the temporary name),
\* create(replacement under the original name), start(replacement),
\* force-remove(self) in this order, each only after the previous call
\* succeeded (after a failed create only the rename back follows); no stop is
\* issued on the self container.
C1_SelfSequence ==
    \A id \in AllIDs :
        LET S == Steps("RecreateSelf", id)
        IN  /\ \/ /\ IsPrefix(Ops(S), SelfOrder)
                  /\ \A i \in 2..Len(S) : S[i - 1].ok
               \/ /\ Ops(S) = <<"ContainerInspect", "ContainerRename", "ContainerCreate",
                                "ContainerRename">>
                  /\ S[1].ok /\ S[2].ok /\ ~S[3].ok
            /\ Len(S) >= 2 => S[2].id = id /\ S[2].arg.name = OriginalName(id) \o Str_old
            /\ Len(S) >= 3 => S[3].arg.name = OriginalName(id)
            /\ Len(S) >= 4 /\ S[4].op = "ContainerStart" => S[4].id = S[3].id
            /\ Len(S) >= 5 => S[5].id = id
            /\ Len(S) >= 1 => \A i \in 1..Len(calls) :
                                calls[i].op = "ContainerStop" => calls[i].id # id

\* RecreateSelf went through all its steps and removed the updater's container
C1_Witness ==
    /\ pc = "dead"
    /\ Ops(Steps("RecreateSelf", OwnID)) = SelfOrder
    /\ ~Exists(OwnID)

RecreateOrder ==
    <<"ContainerInspect", "ContainerStop", "ContainerRemove", "ContainerCreate",
      "ContainerStart">>

\* C2: Recreate issues inspect, stop, remove, create, start in this order, on
\* a container whose check reported an update, all five when it returns
\* without error; the create call carries the image reference Recreate was
\* given, the container's original name and labels, its binds, and mounts of
\* the inspected configuration on the same container paths.
C2_RecreateSequence ==
    \A id \in AllIDs :
        LET S == Steps("Recreate", id)
        IN  /\ IsPrefix(Ops(S), RecreateOrder)
            /\ Len(S) >= 1 =>
                 \E i \in 1..Len(calls) :
                    /\ calls[i] = Call("checkForUpdate", id, "return", S[1].arg.image, TRUE,
                                       [needs |-> TRUE])
            /\ (\E i \in 1..Len(calls) :
                    /\ calls[i].by = "Recreate" /\ calls[i].for = id
                    /\ calls[i].op = "return" /\ calls[i].ok)
                 => Ops(S) = RecreateOrder /\ S[5].ok /\ S[5].id = S[4].id
            /\ Len(S) >= 4 =>
                 /\ S[4].arg.name = OriginalName(id)
                 /\ S[4].arg.config.Image = S[1].arg.image
                 /\ S[4].arg.config.Labels = Original(id).Config.Labels
                 /\ S[4].arg.hostConfig.Binds = Original(id).HostConfig.Binds
                 /\ \A k \in 1..Len(S[4].arg.hostConfig.Mounts) :
                        \E j \in 1..Len(InspectedMounts(id)) :
                            S[4].arg.hostConfig.Mounts[k] = InspectedMounts(id)[j]
                 /\ MountTargets(S[4].arg.hostConfig)
                        = MountTargets([Binds |-> Original(id).HostConfig.Binds,
                                        Mounts |-> InspectedMounts(id)])

\* the container with labels, a mount and two networks was recreated
C2_Witness ==
    /\ Ops(Steps("Recreate", OtherID(1))) = RecreateOrder
    /\ \E i \in 1..Len(calls) :
        /\ calls[i].by = "Recreate" /\ calls[i].for = OtherID(1)
        /\ calls[i].op = "return" /\ calls[i].ok
    /\ \E id \in AllIDs : Exists(id) /\ containers[id].Name = Original(OtherID(1)).Name
                          /\ containers[id].State = "running"
                          /\ containers[id].Config.Image = Original(OtherID(1)).Config.Image

\* the remote digest of the probe recorded at calls[i] equals the local one
DigestsEqual(i) ==
    /\ calls[i].op = "CheckDigest"
    /\ calls[i].ok
    /\ calls[i].arg.local # <<>>
    /\ calls[i].arg.digest = calls[i].arg.local

\* C3: when the remote digest equals the container's local digest,
\* checkForUpdate returns (false, nil) right after the probe, and the cycle
\* issues no pull, stop, remove, rename, create, start or image removal for
\* that container.
C3_EqualDigests ==
    \A i \in 1..Len(calls) :
        DigestsEqual(i) =>
            /\ i < Len(calls)
            /\ calls[i + 1] = ReturnCall([ID |-> calls[i].for, Image |-> calls[i].id],
                                         FALSE, FALSE)
            /\ \A j \in 1..Len(calls) :
                calls[j].for = calls[i].for =>
                    /\ calls[j].by \notin {"Recreate", "RecreateSelf"}
                    /\ calls[j].op \notin {"PullImage", "ContainerStop", "ContainerRemove",
                                           "ContainerRename", "ContainerCreate",
                                           "ContainerStart", "ImageRemove"}

\* a cycle ended in which a container's digests were equal while another
\* container was updated
C3_Witness ==
    /\ pc = "returned"
    /\ rc.ret.updated >= 1
    /\ \E i \in 1..Len(calls) : DigestsEqual(i) /\ calls[i].for = OtherID(1)

\* the probe recorded at calls[i] failed, or there is no local digest
MustFallBack(i) ==
    /\ calls[i].op = "CheckDigest"
    /\ ~calls[i].ok \/ calls[i].arg.local = <<>>

\* C4: when CheckDigest fails or no local digest can be extracted,
\* checkForUpdate pulls and returns what the comparison of image ids gives:
\* a failed pull (false, error), the same id (false, nil), another id
\* (true, nil); the error of CheckDigest is never what it returns.
C4_FallBack ==
    \A i \in 1..Len(calls) :
        MustFallBack(i) =>
            /\ i + 2 <= Len(calls)
            /\ calls[i + 1].by = "checkForUpdate" /\ calls[i + 1].op = "PullImage"
            /\ calls[i + 1].for = calls[i].for /\ calls[i + 1].id = calls[i].id
            /\ calls[i + 2].by = "checkForUpdate" /\ calls[i + 2].op = "return"
            /\ calls[i + 2].for = calls[i].for
            /\ ~calls[i + 1].ok => ~calls[i + 2].ok /\ ~calls[i + 2].arg.needs
            /\ calls[i + 1].ok /\ calls[i + 1].arg.id = calls[i + 1].arg.was
                 => calls[i + 2].ok /\ ~calls[i + 2].arg.needs
            /\ calls[i + 1].ok /\ calls[i + 1].arg.id # calls[i + 1].arg.was
                 => calls[i + 2].ok /\ calls[i + 2].arg.needs

\* the probe failed for one container, whose pull gave the image it runs, and
\* another container without local digest got a new image
C4_Witness ==
    \E i, j \in 1..Len(calls) :
        /\ MustFallBack(i) /\ ~calls[i].ok /\ calls[i].arg.local # <<>>
        /\ calls[i + 1].ok /\ calls[i + 1].arg.id = calls[i + 1].arg.was
        /\ MustFallBack(j) /\ calls[j].ok /\ calls[j].arg.local = <<>>
        /\ calls[j + 1].ok /\ calls[j + 1].arg.id # calls[j + 1].arg.was

\* the digests of the probe recorded at calls[i] differ
DigestsDiffer(i) ==
    /\ calls[i].op = "CheckDigest"
    /\ calls[i].ok
    /\ calls[i].arg.local # <<>>
    /\ calls[i].arg.digest # calls[i].arg.local

\* C5: before Recreate or RecreateSelf is invoked on a container, a pull of
\* the image reference it is given succeeded for that container in the cycle;
\* when the pull after a digest mismatch fails, checkForUpdate returns an
\* error and neither function is invoked on the container.
C5_PulledBeforeRecreate ==
    /\ \A i \in 1..Len(calls) :
        calls[i].by \in {"Recreate", "RecreateSelf"} /\ calls[i].op = "ContainerInspect" =>
            \E j \in 1..(i - 1) :
                /\ calls[j].op = "PullImage" /\ calls[j].ok
                /\ calls[j].for = calls[i].for
                /\ calls[j].id = calls[i].arg.image
    /\ \A i \in 1..Len(calls) :
        DigestsDiffer(i) /\ i < Len(calls) /\ ~calls[i + 1].ok =>
            /\ calls[i + 1].op = "PullImage"
            /\ i + 2 <= Len(calls)
            /\ calls[i + 2] = ReturnCall([ID |-> calls[i].for, Image |-> calls[i].id],
                                         FALSE, TRUE)
            /\ \A j \in 1..Len(calls) :
                calls[j].for = calls[i].for => calls[j].by \notin {"Recreate", "RecreateSelf"}

\* the pull after a mismatch failed for one container and another container
\* was recreated
C5_Witness ==
    /\ \E i \in 1..Len(calls) : DigestsDiffer(i) /\ i < Len(calls) /\ ~calls[i + 1].ok
    /\ \E i \in 1..Len(calls) :
        /\ calls[i].by = "Recreate" /\ calls[i].op = "return" /\ calls[i].ok

\* RecreateSelf returned an error while working on container id
SelfReturnedError(id) ==
    \E i \in 1..Len(calls) :
        calls[i] = Call("RecreateSelf", id, "return", <<>>, FALSE, NoArg)

\* C6: when the create of the replacement fails in RecreateSelf, the rename
\* of the self container back to its original name is the next and last call,
\* RecreateSelf returns an error, no start and no remove is issued, and the
\* original keeps running, under its original name once that rename succeeded.
C6_CreateFailureReverts ==
    \A id \in AllIDs :
        LET S == Steps("RecreateSelf", id)
        IN  Len(S) >= 3 /\ S[3].op = "ContainerCreate" /\ ~S[3].ok =>
                /\ \/ Len(S) = 3 /\ pc = "selfNew" /\ fr.id = id /\ fr.step = "revert"
                   \/ /\ Len(S) = 4
                      /\ S[4].op = "ContainerRename" /\ S[4].id = id
                      /\ S[4].arg.name = OriginalName(id)
                      /\ SelfReturnedError(id)
                      /\ S[4].ok => containers[id].Name = Original(id).Name
                /\ \A i \in 1..Len(calls) :
                    calls[i].for = id /\ calls[i].by = "RecreateSelf"
                        => calls[i].op \notin {"ContainerStart", "ContainerRemove"}
                /\ containers[id].State = "running"
                /\ \A other \in AllIDs \ {id} :
                    Exists(other) => containers[other].Name # Original(id).Name

\* the create failed and the rename back restored the name
C6_Witness ==
    LET S == Steps("RecreateSelf", OwnID)
    IN  /\ pc = "returned"
        /\ Len(S) = 4 /\ S[3].op = "ContainerCreate" /\ ~S[3].ok
        /\ S[4].op = "ContainerRename" /\ S[4].ok
        /\ containers[OwnID].Name = Original(OwnID).Name

\* C7: when the replacement is created but fails to start in RecreateSelf, the
\* rename of the self container is reverted, so that the original runs under
\* its original name, and the original is not removed.
C7_StartFailureReverts ==
    \A id \in AllIDs :
        LET S == Steps("RecreateSelf", id)
        IN  Len(S) >= 4 /\ S[4].op = "ContainerStart" /\ ~S[4].ok =>
                /\ Exists(id)
                /\ containers[id].State = "running"
                /\ containers[id].Name = Original(id).Name

\* C8: the container identified as self is never the one Recreate works on.
C8_SelfNeverToRecreate ==
    \A i \in 1..Len(calls) :
        calls[i].by = "Recreate" => ~isSelf(u.selfID, calls[i].for)

\* C9: in a cycle that listed the self container with self-update enabled, the
\* check of self is performed, after every check and every recreation of the
\* other containers.
C9_SelfCheckedLast ==
    pc \in {"returned", "dead", "panicked"} /\ rc.self # <<>> =>
        \E i \in 1..Len(calls) :
            /\ calls[i].by = "checkForUpdate" /\ calls[i].op = "CheckDigest"
            /\ calls[i].for = rc.self[1].ID
            /\ \A j \in 1..Len(calls) :
                calls[j].for # rc.self[1].ID /\ calls[j].op # "ContainerList" => j < i

\* the container path of a bind as the engine reads it: the bind itself when
\* it is a path alone, else its second part
BindDestination(b) == IF Len(BindParts(b)) = 1 THEN b ELSE BindParts(b)[2]

\* C10: after the duplicate resolution no container path is a target in more
\* than one of the declared volumes, the binds and the explicit mounts.
C10_NoSharedTarget ==
    planOut # NoArg =>
        LET V == IF planOut.config.Volumes.isNil THEN {} ELSE planOut.config.Volumes.paths
            B == {BindDestination(planOut.hostConfig.Binds[i]) :
                    i \in 1..Len(planOut.hostConfig.Binds)}
            M == {planOut.hostConfig.Mounts[i].Target :
                    i \in 1..Len(planOut.hostConfig.Mounts)}
        IN  V \cap B = {} /\ V \cap M = {} /\ B \cap M = {}

\* the volumes, binds and mounts the duplicate resolution is given: those of
\* the inspected configuration, the mounts synthesized when it has none
PlanGiven ==
    [Volumes |-> planIn.inspect.Config.Volumes,
     Binds   |-> planIn.inspect.HostConfig.Binds,
     Mounts  |-> IF Len(planIn.inspect.Mounts) > 0
                    /\ Len(planIn.inspect.HostConfig.Mounts) = 0
                 THEN convertMounts(planIn.inspect.Mounts)
                 ELSE planIn.inspect.HostConfig.Mounts]

\* the container paths the binds of a list mount
BindDestinations(binds) == {BindDestination(binds[i]) : i \in 1..Len(binds)}

\* C11: the duplicate resolution removes a declared volume if and only if its
\* path is the target of an explicit mount or the destination of a bind, and
\* an explicit mount if and only if its target is the destination of a bind;
\* binds are left as they are, every other volume and mount is kept in its
\* place, and a nil volume set stays nil.
C11_ExactRemoval ==
    planOut # NoArg =>
        LET given == PlanGiven
            dests == BindDestinations(given.Binds)
            targets == {given.Mounts[i].Target : i \in 1..Len(given.Mounts)}
        IN  /\ planOut.hostConfig.Binds = given.Binds
            /\ planOut.hostConfig.Mounts
                 = SelectSeq(given.Mounts, LAMBDA m : m.Target \notin dests)
            /\ planOut.config.Volumes.isNil = given.Volumes.isNil
            /\ planOut.config.Volumes.paths = given.Volumes.paths \ (dests \cup targets)

\* C12: applying deduplicateMounts and deduplicateVolumes to a prepared plan
\* again changes neither its volumes nor its binds nor its mounts.
C12_Idempotent ==
    [][pc = "planned" =>
        /\ planOut'.config.Volumes = planOut.config.Volumes
        /\ planOut'.hostConfig.Binds = planOut.hostConfig.Binds
        /\ planOut'.hostConfig.Mounts = planOut.hostConfig.Mounts]_vars

\* the resolution ran twice on a plan from which the first run removed a
\* volume and one of two mounts
C12_Witness ==
    /\ pc = "replanned"
    /\ planOut.config.Volumes.paths # PlanGiven.Volumes.paths
    /\ Len(PlanGiven.Mounts) = 2
    /\ Len(planOut.hostConfig.Mounts) = 1

\* the token a token reply carries: its "token" field or, when that is empty,
\* its "access_token" field
CarriedToken(tk) == IF tk.token # <<>> THEN tk.token ELSE tk.access_token

\* the token endpoint answered with success and a token
TokenGranted(tk) ==
    ~tk.doErr /\ tk.status = 200 /\ ~tk.decodeErr /\ CarriedToken(tk) # <<>>

\* the first reply of probe p is a 401 whose Bearer challenge has realm "h"
ChallengedWithRealm(p) ==
    /\ ~p.r.first.doErr
    /\ p.r.first.status = 401
    /\ p.r.first.challenge \in {Challenge, ChallengeFull}

\* C13: after a 401 with a Bearer challenge that has a realm, CheckDigest
\* requests a token from the realm and, given one, repeats the manifest
\* request with "Authorization: Bearer T", T being the reply's token field or,
\* when that is empty, its access_token field; the digest header of a
\* successful retry is what it returns.
C13_TokenFlow ==
    \A k \in 1..Len(probes) :
        LET p == probes[k]
            reqs == p.out.reqs
        IN  ChallengedWithRealm(p) =>
                /\ Len(reqs) >= 2
                /\ reqs[1].op = "HEAD" /\ reqs[1].auth = <<>>
                /\ reqs[2].op = "GET" /\ reqs[2].realm = <<"h">>
                /\ TokenGranted(p.r.token) =>
                    /\ Len(reqs) = 3
                    /\ reqs[3] = [op |-> "HEAD", url |-> reqs[1].url,
                                  auth |-> Str_Bearer \o CarriedToken(p.r.token)]
                    /\ ~p.r.second.doErr /\ p.r.second.status = 200
                       /\ p.r.second.digest # <<>>
                         => p.out.digest = p.r.second.digest /\ ~p.out.err

\* a token reply with an empty token field and access_token "A" led to a retry
\* with "Bearer A" whose digest was returned
C13_Witness ==
    \E k \in 1..Len(probes) :
        /\ ChallengedWithRealm(probes[k])
        /\ probes[k].r.token.token = <<>>
        /\ Len(probes[k].out.reqs) = 3
        /\ probes[k].out.reqs[3].auth = Str_Bearer \o <<"A">>
        /\ probes[k].out.digest = DigB
        /\ ~probes[k].out.err

\* the first reply of probe p is a 200 with a digest header
DigestAtOnce(p) ==
    ~p.r.first.doErr /\ p.r.first.status = 200 /\ p.r.first.digest # <<>>

\* C14: when the first manifest request is answered 200 with a digest header,
\* CheckDigest issues that one unauthenticated request, no token request and
\* no second manifest request, and returns the header value as it is.
C14_NoChallengeFlow ==
    \A k \in 1..Len(probes) :
        DigestAtOnce(probes[k]) =>
            /\ Len(probes[k].out.reqs) = 1
            /\ probes[k].out.reqs[1].op = "HEAD"
            /\ probes[k].out.reqs[1].auth = <<>>
            /\ probes[k].out.digest = probes[k].r.first.digest
            /\ ~probes[k].out.err

\* a probe answered at once followed one that went through the challenge
C14_Witness ==
    /\ Len(probes) = 2
    /\ Len(probes[1].out.reqs) = 3
    /\ DigestAtOnce(probes[2])
    /\ probes[2].out.digest = DigA

\* how many of the requests are of kind op
NumRequests(reqs, op) == Cardinality({i \in 1..Len(reqs) : reqs[i].op = op})

\* the authenticated retry of probe p was made and not answered 200
RetryRejected(p) ==
    Len(p.out.reqs) = 3 /\ (p.r.second.doErr \/ p.r.second.status # 200)

\* C15: one CheckDigest call issues at most two manifest requests and at most
\* one token request; when the authenticated retry is not answered 200
\* (another 401 included) the call fails and the retry was its last request;
\* a call's first request carries no token, and a retry carries the token of
\* the token request made just before it in the same call, whatever the calls
\* before obtained.
C15_BoundedRequests ==
    \A k \in 1..Len(probes) :
        LET p == probes[k]
            reqs == p.out.reqs
        IN  /\ NumRequests(reqs, "HEAD") <= 2
            /\ NumRequests(reqs, "GET") <= 1
            /\ Len(reqs) = NumRequests(reqs, "HEAD") + NumRequests(reqs, "GET")
            /\ reqs[1].op = "HEAD" /\ reqs[1].auth = <<>>
            /\ \A i \in 2..Len(reqs) :
                reqs[i].op = "HEAD" =>
                    /\ i = 3 /\ reqs[2].op = "GET"
                    /\ reqs[i].auth = Str_Bearer \o CarriedToken(p.r.token)
            /\ RetryRejected(p) => p.out.err /\ p.out.digest = <<>>

\* two calls in a row each asked for a token: the first got "T" and a digest,
\* the second got "U" and its retry was answered 401
C15_Witness ==
    /\ Len(probes) = 2
    /\ Len(probes[1].out.reqs) = 3 /\ ~probes[1].out.err
    /\ probes[1].out.reqs[3].auth = Str_Bearer \o <<"T">>
    /\ RetryRejected(probes[2])
    /\ probes[2].r.second.status = 401
    /\ probes[2].out.reqs[3].auth = Str_Bearer \o <<"U">>

\* the replies of probe p are one of the protocol failures: a 200 without
\* digest header on the first or on the retried request, a 401 without
\* challenge header or without realm, a token reply that is not a success or
\* carries no token, a first status other than 200 and 401
ProtocolFailure(p) ==
    LET first == p.r.first
    IN  /\ ~first.doErr
        /\ \/ first.status = 200 /\ first.digest = <<>>
           \/ first.status = 401 /\ first.challenge \in {<<>>, ChallengeNoRealm}
           \/ /\ ChallengedWithRealm(p)
              /\ ~p.r.token.doErr
              /\ p.r.token.status # 200 \/ CarriedToken(p.r.token) = <<>>
           \/ /\ ChallengedWithRealm(p)
              /\ TokenGranted(p.r.token)
              /\ ~p.r.second.doErr /\ p.r.second.status = 200 /\ p.r.second.digest = <<>>
           \/ first.status \notin {200, 401}

\* C16: CheckDigest returns a non-empty digest without error, or an error with
\* an empty digest, never an empty digest without error; each protocol
\* failure gives an error.
C16_DigestOrError ==
    \A k \in 1..Len(probes) :
        /\ probes[k].out.err <=> probes[k].out.digest = <<>>
        /\ ProtocolFailure(probes[k]) => probes[k].out.err

\* a call failed on a token reply with both fields empty, the next on a
\* retried 200 without digest header
C16_Witness ==
    /\ Len(probes) = 2
    /\ ChallengedWithRealm(probes[1])
    /\ probes[1].r.token = TokenReply(200, FALSE, <<>>, <<>>)
    /\ probes[1].out.err
    /\ TokenGranted(probes[2].r.token)
    /\ Len(probes[2].out.reqs) = 3
    /\ probes[2].r.second = Reply(200, <<>>, <<>>)
    /\ probes[2].out.err

\* container c of the listing is among the candidates
Included(c) == \E i \in 1..Len(rc.candidates) : rc.candidates[i] = c

\* the detected self id is empty or the id of c does not start with it
NotSelf(c) == u.selfID = <<>> \/ ~IsPrefix(u.selfID, c.ID)

\* c is listed under a reference that can be pulled: not empty, not an image id
Pullable(c) == c.Image # <<>> /\ ~IsPrefix(Str_sha256, c.Image)

\* c carries the label isengard.enable with one of the values
Enable(c, values) == \E kv \in c.Labels : kv[1] = "isengard.enable" /\ kv[2] \in values

FalseSpellings == {Str_false, <<"F", "a", "l", "s", "e">>, <<"F", "A", "L", "S", "E">>}

TrueSpellings == {Str_true, <<"T", "R", "U", "E">>}

\* C17: a listed container that is not self and has a pullable image
\* reference is a candidate, in watch-all mode, unless its isengard.enable
\* label is "false" in any spelling, and in opt-in mode only if that label is
\* "true" in any spelling.
C17_InclusionPolicy ==
    pc = "filtered" =>
        \A i \in 1..Len(listed) :
            NotSelf(listed[i]) /\ Pullable(listed[i]) =>
                (Included(listed[i]) <=>
                    IF u.WatchAll
                    THEN ~Enable(listed[i], FalseSpellings)
                    ELSE Enable(listed[i], TrueSpellings))

\* in opt-in mode a container labelled "TRUE" was taken and an unlabelled one
\* left out
C17_Witness ==
    /\ pc = "filtered"
    /\ ~u.WatchAll
    /\ Len(listed) = 2
    /\ Enable(listed[1], {<<"T", "R", "U", "E">>}) /\ Included(listed[1])
    /\ listed[2].Labels = {} /\ NotSelf(listed[2]) /\ Pullable(listed[2])
    /\ ~Included(listed[2])

\* the reference names a repository and a digest but no tag
PinnedByDigest(image) ==
    \E i \in 1..Len(image) :
        image[i] = "@" /\ \A j \in 1..(i - 1) : image[j] # ":"

\* c is listed under a reference without mutable tag: none, an image id, or a
\* repository pinned by digest
NoMutableTag(c) ==
    c.Image = <<>> \/ IsPrefix(Str_sha256, c.Image) \/ PinnedByDigest(c.Image)

\* C18: in either mode and whatever its labels, a listed container whose
\* image reference has no mutable tag is kept out of the cycle: it is neither
\* a candidate nor the container the self-update works on.
C18_PinnedExcluded ==
    pc = "filtered" =>
        \A i \in 1..Len(listed) :
            NoMutableTag(listed[i]) =>
                /\ ~Included(listed[i])
                /\ rc.self # <<listed[i]>>

\* the inclusion policy of the mode admits c
PolicyAdmits(c) ==
    IF u.WatchAll THEN ~Enable(c, FalseSpellings) ELSE Enable(c, TrueSpellings)

\* C19: isSelf holds of a container id exactly when the detected self id is
\* not empty and the container id equals it or starts with it; the container
\* set aside for self-update is one it holds of and no candidate is, whatever
\* the labels and the mode; with an empty self id no
\* listed container is set aside or left out as self: every container with a
\* pullable reference that the policy admits is a candidate.
C19_SelfMatch ==
    pc = "filtered" =>
        /\ \A i \in 1..Len(listed) :
            isSelf(u.selfID, listed[i].ID)
                <=> (u.selfID # <<>> /\ IsPrefix(u.selfID, listed[i].ID))
        /\ rc.self # <<>> => u.selfID # <<>> /\ IsPrefix(u.selfID, rc.self[1].ID)
        /\ \A i \in 1..Len(listed) : Included(listed[i]) => NotSelf(listed[i])
        /\ u.selfID = <<>> =>
            /\ rc.self = <<>>
            /\ \A i \in 1..Len(listed) :
                Pullable(listed[i]) /\ PolicyAdmits(listed[i]) => Included(listed[i])

\* with the short self id detected, the updater's container, listed under its
\* full id, was set aside for self-update and another container was taken
C19_Witness ==
    /\ pc = "filtered"
    /\ u.selfID = Prefix(OwnID, ShortIDLen)
    /\ Len(listed) = 2
    /\ listed[1].ID = OwnID /\ rc.self = <<listed[1]>>
    /\ listed[2].ID = OtherID(1) /\ rc.candidates = <<listed[2]>>

\* the updater detected its own container's id
SelfDetected == u.selfID # <<>> /\ IsPrefix(u.selfID, OwnID)

Checked(id) ==
    \E k \in 1..Len(calls) :
        calls[k].by = "checkForUpdate" /\ calls[k].op = "CheckDigest" /\ calls[k].for = id

\* Recreate was called on container id
RecreateBegun(id) ==
    \E k \in 1..Len(calls) :
        calls[k].by = "Recreate" /\ calls[k].op = "ContainerInspect" /\ calls[k].for = id

\* the returns of Recreate recorded for the containers of the update loop
RecreateReturns(ok) ==
    {k \in 1..Len(calls) :
        /\ calls[k].by = "Recreate" /\ calls[k].op = "return" /\ calls[k].ok = ok
        /\ \E i \in 1..Len(rc.toUpdate) : rc.toUpdate[i].ID = calls[k].for}

\* C21: whatever checks and recreations failed, once RunCycle is past its
\* check loop every candidate was checked, and once it is past its update
\* loop Recreate was called on every container found to need an update; a
\* container whose recreation failed is not counted as updated, and RunCycle
\* returns the count without error.
C21_FailuresDoNotBlock ==
    /\ pc \in {"update", "self", "selfNew", "selfOld", "returned"} =>
        \A i \in 1..Len(rc.candidates) : Checked(rc.candidates[i].ID)
    /\ pc \in {"self", "selfNew", "selfOld", "returned"} =>
        \A i \in 1..Len(rc.toUpdate) : RecreateBegun(rc.toUpdate[i].ID)
    /\ pc = "returned" /\ calls[1].ok =>
        /\ ~rc.ret.err
        /\ rc.ret.updated = Cardinality(RecreateReturns(TRUE))
        /\ Cardinality(RecreateReturns(TRUE)) + Cardinality(RecreateReturns(FALSE))
             = Len(rc.toUpdate)

\* the recreation of the first container to update failed and the second was
\* recreated all the same
C21_Witness ==
    /\ pc = "returned"
    /\ Len(rc.toUpdate) = 2
    /\ \E k \in RecreateReturns(FALSE) : calls[k].for = rc.toUpdate[1].ID
    /\ \E k \in RecreateReturns(TRUE) : calls[k].for = rc.toUpdate[2].ID
    /\ rc.ret.updated = 1

\* the check of the first candidate failed and the second was checked and
\* recreated
C21_WitnessCheck ==
    /\ pc = "returned"
    /\ Len(rc.candidates) = 2
    /\ \E k \in 1..Len(calls) :
        /\ calls[k].by = "checkForUpdate" /\ calls[k].op = "return" /\ ~calls[k].ok
        /\ calls[k].for = rc.candidates[1].ID
    /\ Checked(rc.candidates[2].ID)
    /\ rc.ret.updated = 1

\* the listing of the running containers failed
ListingFailed ==
    /\ Len(calls) >= 1
    /\ calls[1].op = "ContainerList"
    /\ ~calls[1].ok

\* C22: when the listing of the running containers fails, RunCycle has
\* returned (0, error) and the failed listing is the only call of the cycle:
\* no registry request, pull, recreation, image removal or self-update.
C22_ListFailureEndsCycle ==
    ListingFailed =>
        /\ pc = "returned"
        /\ rc.ret = [updated |-> 0, err |-> TRUE]
        /\ Len(calls) = 1
        /\ created = 0
        /\ fr = NoFrame

\* a cycle whose listing failed
C22_Witness ==
    /\ ListingFailed
    /\ pc = "returned"
    /\ rc.ret.err

\* the positions of the log at which the cycle's context was cancelled
Cancellations == {k \in 1..Len(calls) : calls[k].op = "cancel"}

\* record k is a request that went out: the registry probe carries no context,
\* an engine call went out if the client did not refuse it
Issued(k) ==
    \/ calls[k].op = "CheckDigest"
    \/ /\ calls[k].ok
       /\ calls[k].op \in {"PullImage", "ContainerStop", "ContainerRemove",
                           "ContainerCreate", "ContainerStart"}

\* some record before position c shows function by at work on container id
BegunBefore(by, id, c) ==
    \E j \in 1..(c - 1) : calls[j].by = by /\ calls[j].for = id

\* C23: after the cycle's context is cancelled no registry request, pull,
\* stop, remove, create or start goes out for a candidate whose check
\* (respectively recreation) had not begun when the context was cancelled.
C23_NoNewWorkAfterCancel ==
    \A c \in Cancellations : \A k \in (c + 1)..Len(calls) :
        ( /\ calls[k].by \in {"checkForUpdate", "Recreate"}
          /\ \E i \in 1..Len(rc.candidates) : rc.candidates[i].ID = calls[k].for
          /\ Issued(k) )
        => BegunBefore(calls[k].by, calls[k].for, c)

\* the records of the Recreate call on container id that ended at position r
RecreateSpan(id, r) ==
    {k \in 1..(r - 1) : calls[k].by = "Recreate" /\ calls[k].for = id}

\* C24: when the cycle's context is cancelled while Recreate works on a
\* container and no call of that Recreate had failed before, a stop or remove
\* that went out is followed by the create and the start of the replacement
\* before Recreate returns.
C24_CancelLeavesReplacement ==
    \A c \in Cancellations : \A r \in (c + 1)..Len(calls) :
        ( /\ calls[r].by = "Recreate" /\ calls[r].op = "return"
          /\ \E k \in RecreateSpan(calls[r].for, r) : k < c
          /\ \A k \in RecreateSpan(calls[r].for, r) : k < c => calls[k].ok
          /\ \E k \in RecreateSpan(calls[r].for, r) :
                calls[k].ok /\ calls[k].op \in {"ContainerStop", "ContainerRemove"} )
        => \A op \in {"ContainerCreate", "ContainerStart"} :
              \E k \in RecreateSpan(calls[r].for, r) : calls[k].ok /\ calls[k].op = op

\* C25: a cancellation of the cycle's context makes no call of RecreateSelf
\* fail: when no engine call failed of its own, every inspect, rename,
\* create, connect, start and remove of RecreateSelf succeeded, before and
\* after the cancellation.
C25_SelfUpdateNotCancelled ==
    failures = 0 =>
        \A k \in 1..Len(calls) :
            calls[k].by = "RecreateSelf" /\ calls[k].op # "return" => calls[k].ok

\* the context was cancelled after RecreateSelf began, and the rename, create,
\* start and remove all went through: the updater removed itself
C25_Witness ==
    /\ pc = "dead"
    /\ failures = 0
    /\ \E c \in Cancellations :
        /\ \E k \in 1..(c - 1) : calls[k].by = "RecreateSelf" /\ calls[k].op = "ContainerInspect"
        /\ \A op \in {"ContainerRename", "ContainerCreate", "ContainerStart", "ContainerRemove"} :
            \E k \in (c + 1)..Len(calls) :
                calls[k].by = "RecreateSelf" /\ calls[k].op = op /\ calls[k].ok

\* C26: whatever the registry and the engine answer, the updater does not
\* terminate abnormally: no slice of a digest or of an id fails in
\* checkForUpdate, pullAndCompare, trySelfUpdate or RunCycle.
C26_NoAbnormalTermination == pc # "panicked"

\* the positions of the log at which an image removal was issued
ImageRemovals == {k \in 1..Len(calls) : calls[k].op = "ImageRemove"}

\* C27: an image removal is issued only with cleanup enabled, only for a
\* container whose check reported an update and whose Recreate had returned
\* successfully before, and it removes the image that container ran before.
C27_CleanupOnlyAfterSuccess ==
    \A k \in ImageRemovals :
        /\ u.Cleanup
        /\ \E j \in 1..(k - 1) :
            /\ calls[j].by = "checkForUpdate" /\ calls[j].op = "return"
            /\ calls[j].for = calls[k].for /\ calls[j].ok /\ calls[j].arg.needs
        /\ \E j \in 1..(k - 1) :
            /\ calls[j].by = "Recreate" /\ calls[j].op = "return"
            /\ calls[j].for = calls[k].for /\ calls[j].ok
        /\ \A j \in 1..(k - 1) :
            calls[j].by = "Recreate" /\ calls[j].op = "return" /\ calls[j].for = calls[k].for
                => calls[j].ok
        /\ \E i \in 1..Len(rc.toUpdate) :
            rc.toUpdate[i].ID = calls[k].for /\ rc.toUpdate[i].ImageID = calls[k].id

\* the first container's recreation failed and no image was removed for it;
\* the second was recreated and its old image removed
C27_Witness ==
    /\ pc = "returned"
    /\ Len(rc.toUpdate) = 2
    /\ \E k \in RecreateReturns(FALSE) : calls[k].for = rc.toUpdate[1].ID
    /\ \E k \in ImageRemovals : calls[k].for = rc.toUpdate[2].ID
    /\ \A k \in ImageRemovals : calls[k].for # rc.toUpdate[1].ID

\* the positions at which a Recreate that had created its replacement returned
RecreateReturnsAfterCreate ==
    {r \in 1..Len(calls) :
        /\ calls[r].by = "Recreate" /\ calls[r].op = "return"
        /\ \E k \in RecreateSpan(calls[r].for, r) :
            calls[k].op = "ContainerCreate" /\ calls[k].ok}

\* the records of operation op in the Recreate that returned at position r
SpanOps(r, op) == {k \in RecreateSpan(calls[r].for, r) : calls[k].op = op}

\* C28: a Recreate of a container attached to n >= 1 networks gives the create
\* call exactly one of them and, after the create, issues one network-connect
\* for each of the other n-1 and none else; whether or not a connect fails
\* the replacement is started, and Recreate returns successfully when the
\* start succeeds.
C28_NetworksReattached ==
    \A r \in RecreateReturnsAfterCreate :
        LET nets == OriginalContainers[calls[r].for].Networks
            c == CHOOSE k \in SpanOps(r, "ContainerCreate") : calls[k].ok
            given == calls[c].arg.networks
        IN  nets # {} =>
              /\ given \subseteq nets /\ Cardinality(given) = 1
              /\ \A n \in nets \ given :
                    Cardinality({k \in SpanOps(r, "NetworkConnect") :
                                    calls[k].arg.network = n /\ k > c}) = 1
              /\ Cardinality(SpanOps(r, "NetworkConnect")) = Cardinality(nets) - 1
              /\ \E k \in SpanOps(r, "ContainerStart") :
                    /\ k = r - 1
                    /\ \A j \in SpanOps(r, "NetworkConnect") : j < k
                    /\ calls[r].ok = calls[k].ok

\* a Recreate of a container on two networks whose network-connect failed
\* and which returned successfully
C28_Witness ==
    \E r \in RecreateReturnsAfterCreate :
        /\ calls[r].ok
        /\ Cardinality(OriginalContainers[calls[r].for].Networks) = 2
        /\ \E k \in SpanOps(r, "NetworkConnect") : ~calls[k].ok
        /\ containers[calls[r].id].State = "running"

\* the repository names under which an entry of RepoDigests counts as the
\* reference's: registry host and path, the path alone, for the default
\* registry "docker.io/" and path, and for its library images the short name
RefVariants(ref) ==
    {ref.Registry \o <<"/">> \o ref.Repository, ref.Repository}
    \cup (IF ref.Registry = Str_registry1
          THEN {Str_dockerio \o <<"/">> \o ref.Repository}
               \cup (IF HasPrefix(ref.Repository, Str_library)
                     THEN {Suffix(ref.Repository, Len(Str_library))}
                     ELSE {})
          ELSE {})

Extractions == {i \in 1..Len(refs) : refs[i].op = "extractLocalDigest"}

\* the positions of the entries of extraction i recorded under the reference
MatchingEntries(i) ==
    {k \in 1..Len(refs[i].names) : refs[i].names[k] \in RefVariants(refs[i].ref)}

\* C29: extractLocalDigest gives the digest of the first RepoDigests entry
\* recorded under one of the reference's repository names, the digest of the
\* first entry when none is, and nothing when RepoDigests is empty, in which
\* case checkForUpdate goes on to pull and compare.
C29_LocalDigest ==
    \A i \in Extractions :
        IF refs[i].names = <<>>
        THEN /\ refs[i].digest = <<>>
             /\ Len(refs[i].check) >= 2
             /\ refs[i].check[1].op = "CheckDigest" /\ refs[i].check[2].op = "PullImage"
        ELSE IF MatchingEntries(i) # {}
        THEN refs[i].digest = PositionDigest(SetMin(MatchingEntries(i)))
        ELSE refs[i].digest = PositionDigest(1)

\* the image "n:1" with an unrelated first entry and a second entry recorded
\* under the short name: the second entry's digest is returned
C29_Witness ==
    \E i \in Extractions :
        /\ refs[i].image = <<"n", ":", "1">>
        /\ refs[i].names = << <<"x">>, <<"n">> >>
        /\ refs[i].digest = PositionDigest(2)

Parses == {i \in 1..Len(refs) : refs[i].op = "ParseImageRef"}

\* C30: a reference with no slash, with or without tag and digest, parses to
\* the default registry host, the repository "library/<name>" and the tag
\* given, "latest" when none is.
C30_DefaultRegistry ==
    \A i \in Parses :
        ~Contains(refs[i].path, "/") =>
            refs[i].ref = [Registry |-> Str_registry1,
                           Repository |-> Str_library \o refs[i].path,
                           Tag |-> IF refs[i].tag = <<>> THEN Str_latest ELSE refs[i].tag]

\* "n@sha256:..." parsed: no tag given, a digest suffix
C30_Witness ==
    \E i \in Parses :
        /\ refs[i].path = <<"n">> /\ refs[i].tag = <<>> /\ refs[i].digest = DigA
        /\ refs[i].ref.Repository = Str_library \o <<"n">>
        /\ refs[i].ref.Tag = Str_latest

\* the part of a path before its first slash and the part after it
HostPart(path) == Prefix(path, Index(path, "/"))

PathPart(path) == Suffix(path, Index(path, "/") + 1)

\* C31: in a reference with a slash only a colon after the last slash
\* separates the tag: the tag is the one written after the path, "latest"
\* when none is, and a registry host written with a port is kept whole, its
\* colon being no tag separator.
C31_PortIsNoTag ==
    \A i \in Parses :
        Contains(refs[i].path, "/") =>
            /\ refs[i].ref.Tag = IF refs[i].tag = <<>> THEN Str_latest ELSE refs[i].tag
            /\ refs[i].path \in PortPaths =>
                /\ refs[i].ref.Registry = HostPart(refs[i].path)
                /\ refs[i].ref.Repository = PathPart(refs[i].path)

\* "h:5/n" parsed with no tag written: tag latest, registry h:5
C31_Witness ==
    \E i \in Parses :
        /\ refs[i].path = <<"h", ":", "5", "/", "n">> /\ refs[i].tag = <<>>
        /\ refs[i].ref = [Registry |-> <<"h", ":", "5">>, Repository |-> <<"n">>,
                          Tag |-> Str_latest]

\* what the hostname probe yields: the hostname when it is a short id
HostnameYield ==
    IF host.hostname.err THEN <<>>
    ELSE LET t == CHOOSE t \in HostnameTable : t.name = host.hostname.name
         IN  IF t.shortID THEN t.name ELSE <<>>

\* what the cgroup path file yields: the id it names
CpusetYield ==
    IF host.cpuset.err THEN <<>>
    ELSE (CHOOSE t \in CpusetTable : t.data = host.cpuset.data).id

\* what the mount description yields: the id of the first line that names one
MountinfoYield ==
    IF host.mountinfo.err THEN <<>>
    ELSE LET ids == [k \in 1..Len(host.mountinfo.lines) |->
                       (CHOOSE t \in MountLineTable : t.text = host.mountinfo.lines[k]).id]
             I == {k \in 1..Len(ids) : ids[k] # <<>>}
         IN  IF I = {} THEN <<>> ELSE ids[SetMin(I)]

\* C32: the id the updater is built with is what the hostname yields, else
\* what the cgroup path file yields, else what the mount description yields,
\* else empty; a hostname yields only when it is a short id, so one of
\* HostnameLen characters with a hyphen or an uppercase letter never becomes
\* the id.
C32_FirstProbeWins ==
    pc = "constructed" =>
        /\ u.selfID = IF HostnameYield # <<>> THEN HostnameYield
                      ELSE IF CpusetYield # <<>> THEN CpusetYield
                      ELSE MountinfoYield
        /\ (~host.hostname.err /\ Len(host.hostname.name) = HostnameLen
              /\ \E i \in 1..HostnameLen : host.hostname.name[i] \notin HexChars)
            => u.selfID # host.hostname.name

\* a hostname of HostnameLen characters with a hyphen, no cgroup path file:
\* the id comes from the mount description
C32_Witness ==
    /\ pc = "constructed"
    /\ host.hostname.name = <<"m", "y", "-", "c", "o", "n", "t", "a", "i", "n", "e", "r">>
    /\ host.cpuset.err
    /\ u.selfID = MountID

\* the values of a boolean variable that are a boolean
ValidBools == {Str_true, Str_false, <<"1">>, <<"0">>}

\* the values of the interval and of the stop timeout that are in range
ValidIntervals == {<<"5", "m">>, <<"9", "0", "s">>, <<"1", "h">>}

ValidStopTimeouts == {<<"1", "0">>}

ValidLogLevels == {Str_debug, Str_info, Str_warn, Str_error}

\* C33: every field of the loaded Config whose variable is unset, cannot be
\* parsed or is out of range equals its default: Interval 30m, RunOnce
\* false, Cleanup true, WatchAll true, StopTimeout 30, LogLevel info.
C33_DefaultsOnInvalid ==
    pc = "loaded" =>
        /\ cfg.env.INTERVAL \notin ValidIntervals => cfg.c.Interval = DefaultInterval
        /\ cfg.env.RUN_ONCE \notin ValidBools => cfg.c.RunOnce = FALSE
        /\ cfg.env.CLEANUP \notin ValidBools => cfg.c.Cleanup = TRUE
        /\ cfg.env.WATCH_ALL \notin ValidBools => cfg.c.WatchAll = TRUE
        /\ cfg.env.STOP_TIMEOUT \notin ValidStopTimeouts => cfg.c.StopTimeout = DefaultStopTimeout
        /\ cfg.env.LOG_LEVEL \notin ValidLogLevels => cfg.c.LogLevel = "info"

\* Recreate has had the container removed and has not yet called create
RemovedNotYetCreated == fr.fn = "Recreate" /\ fr.step = "create"

\* C34: Recreate removes the container only once the creation inputs are
\* prepared: when the removal has returned and the create call is still to
\* come, the plan (image replaced, mounts synthesized, duplicate targets
\* resolved) is already built, so nothing is prepared between the two.
C34_PreparedBeforeRemoval == RemovedNotYetCreated => fr.plan # NoArg

\* the records of Recreate's calls to the engine
RecreateCalls == {k \in 1..Len(calls) : calls[k].by = "Recreate" /\ calls[k].op # "return"}

\* the steps of Recreate whose failure is fatal
FatalSteps == {"ContainerInspect", "ContainerRemove", "ContainerCreate", "ContainerStart"}

\* C35: in Recreate a failing graceful stop is followed by the force-remove;
\* a failing inspect, remove, create or start is followed at once by the
\* return of an error and by no further call of that Recreate, so that after
\* a failed inspect the container is as it was and after a failed remove no
\* create is issued.
C35_StepFailurePolicy ==
    \A k \in RecreateCalls :
        /\ (calls[k].op = "ContainerStop" /\ ~calls[k].ok /\ k < Len(calls)) =>
                /\ calls[k + 1].by = "Recreate" /\ calls[k + 1].for = calls[k].for
                /\ calls[k + 1].op = "ContainerRemove" /\ calls[k + 1].id = calls[k].for
        /\ (calls[k].op \in FatalSteps /\ ~calls[k].ok) =>
                /\ k < Len(calls)
                /\ calls[k + 1] = Call("Recreate", calls[k].for, "return", <<>>, FALSE, NoArg)
                /\ \A j \in RecreateCalls : calls[j].for = calls[k].for => j <= k
        /\ (calls[k].op = "ContainerInspect" /\ ~calls[k].ok) =>
                \E listedSha \in BOOLEAN :
                    containers[calls[k].for] = InitContainers(listedSha)[calls[k].for]

\* a Recreate whose graceful stop failed and whose force-remove went out and
\* succeeded
C35_Witness ==
    \E k \in RecreateCalls :
        /\ calls[k].op = "ContainerStop" /\ ~calls[k].ok
        /\ k < Len(calls)
        /\ calls[k + 1].op = "ContainerRemove" /\ calls[k + 1].ok

\* a Recreate whose force-remove failed and which returned the error
C35_WitnessRemove ==
    \E k \in RecreateCalls :
        /\ calls[k].op = "ContainerRemove" /\ ~calls[k].ok
        /\ calls[k + 1].op = "return" /\ ~calls[k + 1].ok

\* the returns of RecreateSelf without error
SelfSurvivals ==
    {r \in 1..Len(calls) :
        calls[r].by = "RecreateSelf" /\ calls[r].op = "return" /\ calls[r].ok}

\* the Recreates of the update loop that returned without error
LoopUpdates ==
    {r \in 1..Len(calls) : calls[r].by = "Recreate" /\ calls[r].op = "return" /\ calls[r].ok}

\* C36: when RecreateSelf returns without error to trySelfUpdate, the next
\* thing the updater does is to log the warning that the process is still
\* running; nothing is reported after it, and RunCycle returns the number of
\* containers its update loop recreated, the updater's own not among them.
C36_SurvivalIsAnomaly ==
    \A r \in SelfSurvivals :
        /\ r + 1 = Len(calls)
        /\ calls[r + 1] = StillRunningWarning(calls[r].for)
        /\ pc = "returned"
        /\ rc.ret.updated = Cardinality(LoopUpdates)
        /\ rc.ret.updated = rc.updated

\* RecreateSelf returned without error after its replacement was started and
\* an ordinary container had been recreated in the same cycle
C36_Witness ==
    /\ SelfSurvivals # {}
    /\ LoopUpdates # {}
    /\ \E k \in 1..Len(calls) :
        calls[k].by = "RecreateSelf" /\ calls[k].op = "ContainerStart" /\ calls[k].ok

\* the mount points of the inspects with the explicit mount each stands for
MountPointTable ==
    {[point |-> MountPoint("volume", <<"v">>, Path_a, TRUE),
      mount |-> [Type |-> "volume", Source |-> <<"v">>, Target |-> Path_a, ReadOnly |-> FALSE]],
     [point |-> MountPoint("bind", <<"s">>, Path_b, FALSE),
      mount |-> [Type |-> "bind", Source |-> <<"s">>, Target |-> Path_b, ReadOnly |-> TRUE]]}

MountFor(point) == (CHOOSE e \in MountPointTable : e.point = point).mount

\* the k-th smallest element of a set of numbers
Nth(S, k) == CHOOSE i \in S : Cardinality({j \in S : j <= i}) = k

\* seq without the elements at the positions outside keep
Kept(seq, keep) == [k \in 1..Cardinality(keep) |-> seq[Nth(keep, k)]]

\* the positions of a list of targets that no bind of the inspected host
\* configuration mounts
Uncovered(targets) ==
    {i \in 1..Len(targets) : targets[i] \notin BindTargets(planIn.inspect.HostConfig.Binds)}

\* the synthesis applies: no explicit mount and a reported mount point
Synthesizes ==
    Len(planIn.inspect.HostConfig.Mounts) = 0 /\ Len(planIn.inspect.Mounts) > 0

\* C37: when the inspected host configuration has no explicit mount and
\* mount points are reported, the plan's mount list is, before the targets a
\* bind covers are dropped, one entry per mount point in the same order, with
\* its type and source, its destination as target and ReadOnly the negation
\* of RW; otherwise the plan's mounts are the explicit ones and nothing comes
\* from the mount points.
C37_MountsSynthesized ==
    pc = "planned" =>
        LET in == planIn.inspect
            out == planOut.hostConfig.Mounts
            synthesized == [i \in 1..Len(in.Mounts) |-> MountFor(in.Mounts[i])]
        IN  IF Synthesizes
            THEN /\ in.HostConfig.Binds = <<>> =>
                        /\ Len(out) = Len(in.Mounts)
                        /\ \A i \in 1..Len(out) :
                            /\ out[i].Type = in.Mounts[i].Type
                            /\ out[i].Source = in.Mounts[i].Source
                            /\ out[i].Target = in.Mounts[i].Destination
                            /\ out[i].ReadOnly = ~in.Mounts[i].RW
                 /\ out = Kept(synthesized,
                               Uncovered([i \in 1..Len(in.Mounts) |-> in.Mounts[i].Destination]))
            ELSE out = Kept(in.HostConfig.Mounts,
                            Uncovered([i \in 1..Len(in.HostConfig.Mounts) |->
                                            in.HostConfig.Mounts[i].Target]))

\* a plan synthesized from two different mount points, no bind in the way
C37_Witness ==
    /\ pc = "planned"
    /\ Synthesizes
    /\ planIn.inspect.HostConfig.Binds = <<>>
    /\ Len(planIn.inspect.Mounts) = 2
    /\ planIn.inspect.Mounts[1] # planIn.inspect.Mounts[2]
    /\ Len(planOut.hostConfig.Mounts) = 2

\* a plan that keeps its explicit mount although a mount point is reported
C37_WitnessExplicit ==
    /\ pc = "planned"
    /\ Len(planIn.inspect.HostConfig.Mounts) = 1
    /\ Len(planIn.inspect.Mounts) = 1
    /\ MountFor(planIn.inspect.Mounts[1]) # planIn.inspect.HostConfig.Mounts[1]
    /\ planOut.hostConfig.Mounts = planIn.inspect.HostConfig.Mounts

\* the successful pulls made for container id before position k of the log
PullsBefore(id, k) ==
    {p \in 1..(k - 1) : calls[p].op = "PullImage" /\ calls[p].for = id /\ calls[p].ok}

\* C38: a container is recreated only if the image its reference resolves to
\* after the pull differs from the image it runs: every call a Recreate or
\* RecreateSelf makes for a container comes after a pull for it that gave an
\* image id other than the one of the snapshot.
C38_RecreateOnlyNewImage ==
    revision = "part_005" =>
        \A k \in 1..Len(calls) :
            (calls[k].by \in {"Recreate", "RecreateSelf"} /\ calls[k].op # "return") =>
                \A p \in PullsBefore(calls[k].for, k) : calls[p].arg.id # calls[p].arg.was

\* C39: RecreateSelf returns without error only when its own container has
\* been removed: the force-remove before such a return succeeded, and the
\* original and the replacement are not both running.
C39_SuccessMeansRemoved ==
    \A r \in SelfSurvivals :
        /\ calls[r - 1].op = "ContainerRemove" /\ calls[r - 1].ok
        /\ ~(/\ containers[calls[r].for].State = "running"
             /\ containers[calls[r].id].State = "running")

\* the running containers of the updater's image
RunningUpdaters ==
    {id \in AllIDs : containers[id].State = "running"
                        /\ containers[id].Config.Image = OwnContainer(FALSE).Config.Image}

\* the original instance is gone or has returned from its RecreateSelf, and
\* the replacement's first cycle has ended
HandoverOver ==
    /\ original # NoArg
    /\ original.step # "remove" \/ containers[original.id].State # "running"
    /\ pc \in {"returned", "dead"}

\* C40: in whatever order the steps of the replacement's first cycle and the
\* original's removal of itself come, the replacement makes no call of
\* Recreate for the renamed original, and once both are over exactly one
\* container of the updater is running.
C40_OneUpdaterAfterHandover ==
    original # NoArg =>
        /\ \A k \in 1..Len(calls) : ~(calls[k].by = "Recreate" /\ calls[k].for = original.id)
        /\ HandoverOver => Cardinality(RunningUpdaters) = 1

\* no engine call failed, the original removed itself or was removed, the
\* replacement has recreated the renamed original in its update loop, and two
\* containers of the updater are running
C40_OriginalRecreated ==
    /\ original # NoArg
    /\ failures = 0
    /\ HandoverOver
    /\ \E k \in 1..Len(calls) :
        /\ calls[k].by = "Recreate" /\ calls[k].for = original.id
        /\ calls[k].op = "return" /\ calls[k].ok
    /\ Cardinality(RunningUpdaters) = 2

=============================================================================
